---- MODULE Spec2Model ----
(***************************************************************************)
(* Release-notes dashboard backend: the visitor counter kept in a single   *)
(* Firestore document, and the /api/release-notes request flow (BigQuery   *)
(* query followed by an optional Gemini summary with model fallback).      *)
(***************************************************************************)
EXTENDS Integers, Sequences, FiniteSets, TLC

(***************************************************************************)
(* Bounds                                                                  *)
(***************************************************************************)
\* number of concurrent HTTP clients of the visitor-counter endpoints
NumClients == 3
\* largest count the counter document may hold before the first request
MaxStartCount == 2

\* number of concurrent requests to the release-notes API
NumReqs == 2

Clients == 1..NumClients
Reqs == 1..NumReqs

(***************************************************************************)
(* Visitor counter: values                                                 *)
(***************************************************************************)
\* the messages of the errors the Firestore client rejects with
StoreErrors == {"14 UNAVAILABLE", "7 PERMISSION_DENIED"}

NoDoc == [exists |-> FALSE, count |-> 0, version |-> 0]
NoError == "none"

VARIABLES
  doc,      \* the counter document: exists, count, version (write stamp)
  doc0,     \* the document as it was before the first request
  cpc,      \* per client: position in its request
  cop,      \* per client: "inc" (POST .../increment) or "get" (GET)
  snap,     \* per client: the snapshot its transaction / read obtained
  attempts, \* per client: how many times runTransaction ran the update function
  cerr,     \* per client: the error the Firestore client rejected with
  cresp     \* per client: the HTTP responses sent, in order

cvars == <<doc, doc0, cpc, cop, snap, attempts, cerr, cresp>>

\* doc.data()?.count || 0 on a snapshot (0 when the document is absent)
CountOf(d) == IF d.exists THEN d.count ELSE 0

\* res.json({ count })
JsonCount(n) == [status |-> 200, count |-> n, error |-> "", message |-> ""]

\* res.status(500).json({ error, message: error.message })
Json500(msg) ==
  [status |-> 500, count |-> 0, error |-> "Internal Server Error", message |-> msg]

\* mutant: the service rethrows the error it caught
IncrementFailureRethrown(e) == e
\* catch block of VisitorCounterService.incrementCounter
IncrementFailure(e) == "Failed to increment visitor counter"

\* catch block of VisitorCounterService.getCounter
GetFailure(e) == "Failed to get visitor counter"

\* mutant: the update function writes the count it read
NewCountUnincremented(s) == CountOf(s)
\* the update function of incrementCounter: newCount = currentCount + 1
NewCount(s) == CountOf(s) + 1

\* mutant: a commit that does not check the snapshot is still current
CommitAllowedUnchecked(c) == TRUE
\* Firestore commits a transaction only if the documents it read are unchanged
CommitAllowed(c) == snap[c].version = doc.version

(***************************************************************************)
(* Release notes API: values                                               *)
(***************************************************************************)
\* A model name is the sequence of its '-'-separated segments.
ModelPro15 == <<"gemini", "1.5", "pro">>
ModelFlash20 == <<"gemini", "2.0", "flash">>
ModelExp25 == <<"gemini", "2.5", "pro", "exp", "03", "25">>
ModelPreview15 == <<"gemini", "1.5", "pro", "preview", "0514">>
\* the values config.vertexAI.model can hold
ConfigModels == {ModelPro15, ModelFlash20, ModelExp25, ModelPreview15}

\* the segments that start with "2."
SegmentsTwoDot == {"2.0", "2.5"}

\* An API key is its text and its length in characters.
KeyUnset == [text |-> "", length |-> 0]
KeyPlaceholder == [text |-> "YOUR_API_KEY_HERE", length |-> 17]
KeyReal == [text |-> "AIzaSy-key", length |-> 39]
ConfigKeys == {KeyUnset, KeyPlaceholder, KeyReal}

\* A message is a sequence of text fragments; s.includes(x) is asked only of
\* fragments x that occur whole.
Includes(msg, frag) == \E i \in 1..Len(msg) : msg[i] = frag

\* rows as the BigQuery client returns them: DATE columns are wrapped objects
\* whose value is the text YYYY-MM-DD, held as year, two month digits, two day digits
Row1 == [product_name |-> "BigQuery", release_note_type |-> "FEATURE",
         description |-> "d1", published_at |-> [value |-> [year |-> 2024, month |-> <<0, 5>>, day |-> <<0, 2>>]]]
Row2 == [product_name |-> "Cloud Run", release_note_type |-> "FIX",
         description |-> "d2", published_at |-> [value |-> [year |-> 2024, month |-> <<0, 5>>, day |-> <<0, 1>>]]]
RowSets == {<<>>, <<Row1, Row2>>}

\* messages of the errors the BigQuery client rejects with
WarehouseErrors == {<<"Not found: Table release_notes">>, <<"Access Denied: BigQuery">>}

\* replies of the generative API: the text of candidates[0].content.parts[0]
Text1 ==
  <<"## Industry Use Cases", "\n",
    "|", " ", "Industry", " ", "|", " ", "Use Case", " ", "|", "\n",
    "|", "----------", "|", "----------", "|", "\n",
    "|", " ", "Retail", " ", "|", " ", "Forecasting", " ", "|", "\n",
    "##", " ", "Notes">>
Text2 == <<"No table today">>
ReplyTexts == {Text1, Text2}
\* response.data shapes: absent body, no candidates, empty text, text
DataShapes ==
  {[present |-> FALSE, candidates |-> <<>>],
   [present |-> TRUE, candidates |-> <<>>],
   [present |-> TRUE, candidates |-> <<[parts |-> <<[text |-> <<>>]>>]>>]}
  \cup {[present |-> TRUE, candidates |-> <<[parts |-> <<[text |-> t]>>]>>] : t \in ReplyTexts}

NoData == [present |-> FALSE, candidates |-> <<>>]

\* what axios.post(endpoint, payload, {timeout: 60000}) settles with:
\* a 2xx response, or an AxiosError with the response status (0: no response),
\* the error code and the message.  The 60000 ms timer of the call rejects with
\* code ECONNABORTED (no transitional.clarifyTimeoutError is passed);
\* ETIMEDOUT is the socket-level connect timeout.
AxiosOutcomes ==
  {[isAxiosError |-> FALSE, timer |-> FALSE, status |-> 200, code |-> "", message |-> <<>>, data |-> d] :
      d \in DataShapes}
  \cup
  {[isAxiosError |-> TRUE, timer |-> FALSE, status |-> st, code |-> "ERR_BAD_REQUEST",
    message |-> <<"Request failed with status code ", ToString(st)>>, data |-> NoData] :
      st \in {403, 404}}
  \cup
  {[isAxiosError |-> TRUE, timer |-> FALSE, status |-> 500, code |-> "ERR_BAD_RESPONSE",
    message |-> <<"Request failed with status code ", "500">>, data |-> NoData]}
  \cup
  {[isAxiosError |-> TRUE, timer |-> FALSE, status |-> 0, code |-> cd,
    message |-> <<"connect ", cd>>, data |-> NoData] :
      cd \in {"ECONNREFUSED", "ENOTFOUND", "ETIMEDOUT"}}
  \cup
  {[isAxiosError |-> TRUE, timer |-> TRUE, status |-> 0, code |-> "ECONNABORTED",
    message |-> <<"timeout of 60000ms exceeded">>, data |-> NoData]}

NoSummary ==
  [defined |-> FALSE, markdown |-> <<>>, keyFeatures |-> <<>>, industryUseCases |-> <<>>]
NullError == [isNull |-> TRUE, message |-> <<>>, details |-> ""]
SummaryErrorDetails ==
  "There was an issue connecting to Gemini API. Please check your API key and configuration."

VARIABLES
  apiKey,    \* GeminiService.apiKey
  model,     \* GeminiService.model
  rpc,       \* per request: position in its handler
  route,     \* per request: the route it came in on
  summarize, \* per request: the summarize query parameter
  notes,     \* per request: the notes getReleaseNotes resolved with
  bqCalls,   \* per request: number of bigquery.query calls issued
  bqErr,     \* per request: the message of the error bigquery.query rejected with
  gemCalls,  \* per request: the model names axios.post was issued for, in order
  gemOut,    \* per request: what those calls settled with, in order
  resp       \* per request: the HTTP responses sent, in order

avars == <<apiKey, model, rpc, route, summarize, notes, bqCalls, bqErr, gemCalls, gemOut,
           resp>>

(***************************************************************************)
(* Reply parsing and date range: the pure functions, applied to an input   *)
(***************************************************************************)
VARIABLES
  ptext,      \* the text of a reply of the generative API
  presult,    \* what generateSummaryWithModel made of it
  dnow,       \* new Date() when getDateRange runs: local year, month (0-11), date
  dtimeframe, \* the timeframe argument of getDateRange
  drange      \* the { startDate, endDate } it returned

pvars == <<ptext, presult>>
dvars == <<dnow, dtimeframe, drange>>

(***************************************************************************)
(* The server from start-up, and one request followed through its query    *)
(***************************************************************************)
VARIABLES
  boot,         \* "env", "configured" (config module loaded), "serving"
  configModule, \* which of the repository's config modules the build loads
  envKey,       \* process.env.GEMINI_API_KEY
  envModel,     \* process.env.GEMINI_MODEL, <<>> when not set
  cfg,          \* config.vertexAI: apiKey and model
  reqNow,       \* per request: new Date() when getDateRange ran
  reqQuery,     \* per request: req.query.timeframe, .types and .products
  bqOptions     \* per request: the options passed to bigquery.query

svars == <<boot, configModule, envKey, envModel, cfg, reqNow, reqQuery, bqOptions>>

(***************************************************************************)
(* The VisitorCounter component in one browser session                     *)
(***************************************************************************)
VARIABLES
  sessionFlag, \* sessionStorage.getItem('visitorCounterIncremented')
  mpc,         \* per mount: position in initializeCounter
  incPosts,    \* number of POST /api/visitor-counter/increment requests sent
  siteCount,   \* the count the backend holds
  shown        \* per mount: the count state (-1 for null)

fvars == <<sessionFlag, mpc, incPosts, siteCount, shown>>

(***************************************************************************)
(* A filter list from the frontend to the controller                       *)
(***************************************************************************)
VARIABLES
  selected,   \* params.types / params.products: the names selected in the UI
  lpc,        \* "selected", "sent" (request built), "parsed" (controller ran)
  sentQuery,  \* the query parameter on the wire: present or not, and its text
  parsedList  \* the list the controller made of req.query.types / .products

lvars == <<selected, lpc, sentQuery, parsedList>>

(***************************************************************************)
(* What generateSummaryWithModel writes to the console                     *)
(***************************************************************************)
VARIABLES
  lout,   \* what the axios.post of the call settles with
  logged  \* the console lines written, in order

gvars == <<lout, logged>>

(***************************************************************************)
(* One HTTP request through the middleware and routes of the server        *)
(***************************************************************************)
VARIABLES
  nodeEnv,   \* process.env.NODE_ENV
  publicDir, \* the files under ../public (the frontend build)
  hreq,      \* the request: method, path, x-forwarded-proto, body, rate state
  hfail,     \* the message of the error its handler's awaited call rejects with
  hresp      \* the responses sent, in order

wvars == <<nodeEnv, publicDir, hreq, hfail, hresp>>

vars == <<cvars, avars, pvars, dvars, svars, fvars, lvars, gvars, wvars>>
\* what the steps of each part leave alone
nonCounter == <<avars, pvars, dvars, svars, fvars, lvars, gvars, wvars>>
nonApi == <<cvars, pvars, dvars, svars, fvars, lvars, gvars, wvars>>
nonDate == <<cvars, avars, pvars, svars, fvars, lvars, gvars, wvars>>
nonParse == <<cvars, avars, dvars, svars, fvars, lvars, gvars, wvars>>
nonFront == <<cvars, avars, pvars, dvars, svars, lvars, gvars, wvars>>
nonServer == <<cvars, pvars, dvars, fvars, lvars, gvars, wvars>>
nonList == <<cvars, avars, pvars, dvars, svars, fvars, gvars, wvars>>
nonLog == <<cvars, avars, pvars, dvars, svars, fvars, lvars, wvars>>
nonRoute == <<cvars, avars, pvars, dvars, svars, fvars, lvars, gvars>>

(***************************************************************************)
(* Visitor counter: requests                                               *)
(***************************************************************************)
CounterInit ==
  /\ doc \in {NoDoc} \cup
       {[exists |-> TRUE, count |-> n, version |-> n] : n \in 1..MaxStartCount}
  /\ doc0 = doc
  /\ cpc = [c \in Clients |-> "idle"]
  /\ cop = [c \in Clients |-> "none"]
  /\ snap = [c \in Clients |-> NoDoc]
  /\ attempts = [c \in Clients |-> 0]
  /\ cerr = [c \in Clients |-> NoError]
  /\ cresp = [c \in Clients |-> <<>>]

\* POST /api/visitor-counter/increment arrives: the controller calls the
\* service, which starts runTransaction
IncrementRequest(c) ==
  /\ cpc[c] = "idle"
  /\ cpc' = [cpc EXCEPT ![c] = "txget"]
  /\ cop' = [cop EXCEPT ![c] = "inc"]
  /\ UNCHANGED <<doc, doc0, snap, attempts, cerr, cresp>>
  /\ UNCHANGED nonCounter

\* runTransaction runs the update function: transaction.get(counterRef)
\* resolves with the current snapshot.  (The client gives up after a fixed
\* number of attempts; fewer clients than that contend here, so it never does.)
TxGet(c) ==
  /\ cpc[c] = "txget"
  /\ snap' = [snap EXCEPT ![c] = doc]
  /\ attempts' = [attempts EXCEPT ![c] = @ + 1]
  /\ cpc' = [cpc EXCEPT ![c] = "txcommit"]
  /\ UNCHANGED <<doc, doc0, cop, cerr, cresp>>
  /\ UNCHANGED nonCounter

\* the update function has run (newCount = currentCount + 1, transaction.set)
\* and the transaction commits; runTransaction resolves with newCount and the
\* controller answers res.json({ count })
TxCommit(c) ==
  /\ cpc[c] = "txcommit"
  /\ CommitAllowed(c)
  /\ LET newCount == NewCount(snap[c]) IN
       /\ doc' = [exists |-> TRUE, count |-> newCount, version |-> doc.version + 1]
       /\ cresp' = [cresp EXCEPT ![c] = Append(@, JsonCount(newCount))]
  /\ cpc' = [cpc EXCEPT ![c] = "done"]
  /\ UNCHANGED <<doc0, cop, snap, attempts, cerr>>
  /\ UNCHANGED nonCounter

\* the commit is refused because the document changed since it was read:
\* runTransaction runs the update function again
TxRetry(c) ==
  /\ cpc[c] = "txcommit"
  /\ ~CommitAllowed(c)
  /\ cpc' = [cpc EXCEPT ![c] = "txget"]
  /\ UNCHANGED <<doc, doc0, cop, snap, attempts, cerr, cresp>>
  /\ UNCHANGED nonCounter

\* the Firestore client rejects (during the read or the commit, nothing is
\* written); incrementCounter's catch block logs and throws its own Error,
\* which the controller's catch block answers with a 500
TxFail(c) ==
  /\ cpc[c] \in {"txget", "txcommit"}
  /\ \E e \in StoreErrors :
       /\ cerr' = [cerr EXCEPT ![c] = e]
       /\ cresp' = [cresp EXCEPT ![c] = Append(@, Json500(IncrementFailure(e)))]
  /\ cpc' = [cpc EXCEPT ![c] = "done"]
  /\ UNCHANGED <<doc, doc0, cop, snap, attempts>>
  /\ UNCHANGED nonCounter

\* GET /api/visitor-counter arrives: the controller calls getCounter
GetRequest(c) ==
  /\ cpc[c] = "idle"
  /\ cpc' = [cpc EXCEPT ![c] = "read"]
  /\ cop' = [cop EXCEPT ![c] = "get"]
  /\ UNCHANGED <<doc, doc0, snap, attempts, cerr, cresp>>
  /\ UNCHANGED nonCounter

\* mutant: a read that creates the missing document (get-or-create)
GetReadCreating(c) ==
  /\ cpc[c] = "read"
  /\ snap' = [snap EXCEPT ![c] = doc]
  /\ doc' = IF doc.exists THEN doc ELSE [exists |-> TRUE, count |-> 0, version |-> 1]
  /\ cresp' = [cresp EXCEPT ![c] = Append(@, JsonCount(CountOf(doc)))]
  /\ cpc' = [cpc EXCEPT ![c] = "done"]
  /\ UNCHANGED <<doc0, cop, attempts, cerr>>
  /\ UNCHANGED nonCounter

\* the plain document read resolves; getCounter returns count or 0 and the
\* controller answers res.json({ count })
GetRead(c) ==
  /\ cpc[c] = "read"
  /\ snap' = [snap EXCEPT ![c] = doc]
  /\ cresp' = [cresp EXCEPT ![c] = Append(@, JsonCount(CountOf(doc)))]
  /\ cpc' = [cpc EXCEPT ![c] = "done"]
  /\ UNCHANGED <<doc, doc0, cop, attempts, cerr>>
  /\ UNCHANGED nonCounter

\* the plain read rejects; getCounter's catch block throws its own Error,
\* which the controller's catch block answers with a 500
GetFail(c) ==
  /\ cpc[c] = "read"
  /\ \E e \in StoreErrors :
       /\ cerr' = [cerr EXCEPT ![c] = e]
       /\ cresp' = [cresp EXCEPT ![c] = Append(@, Json500(GetFailure(e)))]
  /\ cpc' = [cpc EXCEPT ![c] = "done"]
  /\ UNCHANGED <<doc, doc0, cop, snap, attempts>>
  /\ UNCHANGED nonCounter

CounterNext ==
  \E c \in Clients :
    \/ IncrementRequest(c)
    \/ TxGet(c)
    \/ TxCommit(c)
    \/ TxRetry(c)
    \/ TxFail(c)
    \/ GetRequest(c)
    \/ GetRead(c)
    \/ GetFail(c)


(***************************************************************************)
(* GeminiService                                                           *)
(***************************************************************************)
\* constructor and validateConfiguration: the model falls back to the default
\* when the configuration holds none
ConstructedModel(configModel) == IF configModel = <<>> THEN ModelPro15 ELSE configModel

\* !!this.apiKey && this.apiKey.length > 20
\* mutant: the key check passes whatever the key
isApiKeyConfiguredAlways(key) == TRUE
isApiKeyConfigured(key) == key.length # 0 /\ key.length > 20

\* model.startsWith('gemini-2.') || model.includes('-exp-') ||
\* model.includes('-preview-')
isExperimentalModel(m) ==
  /\ m # <<>>
  /\ \/ (Len(m) >= 2 /\ m[1] = "gemini" /\ m[2] \in SegmentsTwoDot)
     \/ \E i \in 2..(Len(m) - 1) : m[i] = "exp"
     \/ \E i \in 2..(Len(m) - 1) : m[i] = "preview"

MsgKeyNotConfigured ==
  <<"Gemini API key is not properly configured", ". Please set GEMINI_API_KEY in your .env file.">>
MsgEmptyResponse == <<"Empty response from Gemini API">>
MsgCouldNotExtract == <<"Could not extract text", " from the Gemini API response">>
MsgAccessDenied ==
  <<"Access denied", ": API key may be invalid or lacks permissions for the specified model">>
MsgModelNotFound(m) ==
  <<"Model not found", ": \"">> \o m \o <<"\" may not be available or correctly specified">>
MsgNetwork == <<"Network error", ": Unable to connect to the Gemini API">>
MsgTimedOut == <<"Request timed out", ": The Gemini API took too long to respond">>
MsgGeneric(inner) == <<"Failed to generate summary using Gemini", ": ">> \o inner
MsgDependency ==
  <<"Backend dependency missing", ". Please run \"cd backend && npm install\" to install required dependencies.">>

\* A reply text is a sequence of fragments: headings, "\n", "|", " ", rule
\* fragments and words.  The fragments in which '##' occurs, those in which
\* '---' occurs, and the blanks String.trim() removes:
HashFragments == {"##", "###", "## Industry Use Cases", "## Key Features and Announcements"}
DashFragments == {"---", "----------"}
BlankFragments == {" ", "\t"}

\* s.split(sep) for a separator that is one of the fragments in seps
RECURSIVE SplitAt(_, _)
SplitAt(seq, seps) ==
  IF \A i \in 1..Len(seq) : seq[i] \notin seps
    THEN <<seq>>
    ELSE LET i == CHOOSE k \in 1..Len(seq) :
                    seq[k] \in seps /\ \A j \in 1..(k - 1) : seq[j] \notin seps
         IN <<SubSeq(seq, 1, i - 1)>> \o SplitAt(SubSeq(seq, i + 1, Len(seq)), seps)

\* s.trim()
RECURSIVE Trim(_)
Trim(seq) ==
  IF seq = <<>> THEN seq
  ELSE IF seq[1] \in BlankFragments THEN Trim(Tail(seq))
  ELSE IF seq[Len(seq)] \in BlankFragments THEN Trim(SubSeq(seq, 1, Len(seq) - 1))
  ELSE seq

\* mutant: the section is cut from the last part of the split, heading or not
SectionAfterLastPart(markdown, heading) ==
  LET parts == SplitAt(markdown, {heading}) IN
    SplitAt(parts[Len(parts)], HashFragments)[1]
\* markdown.split(heading)[1]?.split('##')[0], <<>> when undefined or ''
SectionAfter(markdown, heading) ==
  LET parts == SplitAt(markdown, {heading}) IN
    IF Len(parts) < 2 THEN <<>> ELSE SplitAt(parts[2], HashFragments)[1]

\* mutant: every line that starts with '|' is kept
TableLinesKeepingDashes(section) ==
  SelectSeq(SplitAt(section, {"\n"}),
            LAMBDA line : Trim(line) # <<>> /\ Trim(line)[1] = "|")
\* the lines kept: line.trim().startsWith('|') && !line.includes('---')
TableLines(section) ==
  SelectSeq(SplitAt(section, {"\n"}),
            LAMBDA line : /\ Trim(line) # <<>>
                          /\ Trim(line)[1] = "|"
                          /\ \A i \in 1..Len(line) : line[i] \notin DashFragments)

\* line.split('|').map(cell => cell.trim())[k], 'undefined' when absent
Cell(line, k) ==
  LET cells == SplitAt(line, {"|"}) IN
    IF Len(cells) >= k + 1 THEN Trim(cells[k + 1]) ELSE <<"undefined">>

extractKeyFeatures(markdown) ==
  LET ls == TableLines(SectionAfter(markdown, "## Key Features and Announcements")) IN
    [i \in 1..Len(ls) |-> Cell(ls[i], 1)]

extractIndustryUseCases(markdown) ==
  LET ls == TableLines(SectionAfter(markdown, "## Industry Use Cases")) IN
    [i \in 1..Len(ls) |-> Cell(ls[i], 1) \o <<": ">> \o Cell(ls[i], 2)]

\* text = candidates[0].content.parts[0].text || '' when those exist, else ''
ExtractText(data) ==
  IF Len(data.candidates) > 0 /\ Len(data.candidates[1].parts) > 0
    THEN data.candidates[1].parts[1].text
    ELSE <<>>

\* the SummaryResult generateSummaryWithModel builds from a reply text
SummaryOfText(text) ==
  [defined |-> TRUE, markdown |-> text,
   keyFeatures |-> extractKeyFeatures(text),
   industryUseCases |-> extractIndustryUseCases(text)]

\* SummaryOfText of each reply text, evaluated once
SummaryTable == [t \in ReplyTexts |-> SummaryOfText(t)]
SummaryFor(text) ==
  IF text \in DOMAIN SummaryTable THEN SummaryTable[text] ELSE SummaryOfText(text)

\* the try block of generateSummaryWithModel after axios.post has settled:
\* what it returns, or the value it throws into its own catch block
TryBody(o) ==
  IF o.isAxiosError
    THEN [ok |-> FALSE, isAxiosError |-> TRUE, status |-> o.status, code |-> o.code,
          message |-> o.message, summary |-> NoSummary]
  ELSE IF ~o.data.present
    THEN [ok |-> FALSE, isAxiosError |-> FALSE, status |-> 0, code |-> "",
          message |-> MsgEmptyResponse, summary |-> NoSummary]
  ELSE IF ExtractText(o.data) = <<>>
    THEN [ok |-> FALSE, isAxiosError |-> FALSE, status |-> 0, code |-> "",
          message |-> MsgCouldNotExtract, summary |-> NoSummary]
  ELSE [ok |-> TRUE, isAxiosError |-> FALSE, status |-> 0, code |-> "", message |-> <<>>,
        summary |-> SummaryFor(ExtractText(o.data))]

\* mutant: every failure is reported as the generic kind
CatchMessageAllGeneric(t, modelToUse) == MsgGeneric(t.message)
\* the catch block of generateSummaryWithModel: the message of the Error thrown
CatchMessage(t, modelToUse) ==
  IF t.isAxiosError /\ t.status = 403 THEN MsgAccessDenied
  ELSE IF t.isAxiosError /\ t.status = 404 THEN MsgModelNotFound(modelToUse)
  ELSE IF t.isAxiosError /\ t.code \in {"ECONNREFUSED", "ENOTFOUND"} THEN MsgNetwork
  ELSE IF t.isAxiosError /\ t.code = "ETIMEDOUT" THEN MsgTimedOut
  ELSE MsgGeneric(t.message)

\* generateSummaryWithModel once axios.post has settled with o:
\* [ok, summary] on success, [ok = FALSE, message] for the Error it throws
WithModelResult(o, modelToUse) ==
  LET t == TryBody(o) IN
    IF t.ok THEN [ok |-> TRUE, summary |-> t.summary, message |-> <<>>]
    ELSE [ok |-> FALSE, summary |-> NoSummary, message |-> CatchMessage(t, modelToUse)]

\* the condition under which generateSummary's catch block calls the fallback
ShouldFallback(m, msg) ==
  isExperimentalModel(m) /\ Includes(msg, "Could not extract text")

\* the rest of generateSummary's catch block: the message it rethrows with
RethrownMessage(msg) ==
  IF Includes(msg, "Cannot find module") THEN MsgDependency ELSE msg

(***************************************************************************)
(* ReleaseNotesController                                                  *)
(***************************************************************************)
\* rows.map(row => ({...row, published_at: row.published_at.value || ...}))
MapRows(rows) ==
  [i \in 1..Len(rows) |->
     [product_name |-> rows[i].product_name,
      release_note_type |-> rows[i].release_note_type,
      description |-> rows[i].description,
      published_at |-> rows[i].published_at.value]]

\* req.query.summarize === 'true'
SummarizeFlag(param) == param = "true"

\* mutant: the summary is attempted whenever it is requested
WantsSummaryIgnoringNotes(flag, ns) == flag
\* summarize && notes.length > 0
WantsSummary(flag, ns) == flag /\ Len(ns) > 0

\* res.json({ notes, filters, summary, summaryError })
JsonNotes(ns, sm, se) ==
  [status |-> 200, kind |-> "notes", notes |-> ns, summary |-> sm, summaryError |-> se,
   error |-> "", message |-> <<>>]

\* res.json({ products }) and res.json({ types })
JsonMeta(kind, values) ==
  [status |-> 200, kind |-> kind, notes |-> values, summary |-> NoSummary,
   summaryError |-> NullError, error |-> "", message |-> <<>>]

\* mutant: the catch block answers with a fixed message
ApiJson500Fixed(msg) ==
  [status |-> 500, kind |-> "error", notes |-> <<>>, summary |-> NoSummary,
   summaryError |-> NullError, error |-> "Internal Server Error",
   message |-> <<"Something went wrong">>]
\* res.status(500).json({ error: 'Internal Server Error', message: error.message })
ApiJson500(msg) ==
  [status |-> 500, kind |-> "error", notes |-> <<>>, summary |-> NoSummary,
   summaryError |-> NullError, error |-> "Internal Server Error", message |-> msg]

\* mutant: a failed summary is left to the outer catch block
SummaryFailedResponseThrown(ns, msg) == ApiJson500(msg)
\* the inner catch block of getReleaseNotes and the response that follows it
SummaryFailedResponse(ns, msg) ==
  JsonNotes(ns, NoSummary, [isNull |-> FALSE, message |-> msg, details |-> SummaryErrorDetails])

\* the stable model generateSummary falls back to
FallbackModel == ModelPro15

\* the checks generateSummaryWithModel makes before it calls the API: the
\* message of the Error it throws into its catch block, <<>> when it passes
PreflightError(key, modelToUse) ==
  IF key.length = 0
    THEN <<"Gemini API key is not configured", ". Please set GEMINI_API_KEY in your .env file.">>
  ELSE IF modelToUse = <<>>
    THEN <<"Gemini model is not configured", ". Please set GEMINI_MODEL in your .env file.">>
  ELSE <<>>

(***************************************************************************)
(* Release notes API: requests                                             *)
(***************************************************************************)
ApiInit ==
  /\ apiKey \in ConfigKeys
  /\ model \in {ConstructedModel(m) : m \in ConfigModels}
  /\ rpc = [r \in Reqs |-> "idle"]
  /\ route = [r \in Reqs |-> "none"]
  /\ summarize = [r \in Reqs |-> "absent"]
  /\ notes = [r \in Reqs |-> <<>>]
  /\ bqCalls = [r \in Reqs |-> 0]
  /\ bqErr = [r \in Reqs |-> <<>>]
  /\ gemCalls = [r \in Reqs |-> <<>>]
  /\ gemOut = [r \in Reqs |-> <<>>]
  /\ resp = [r \in Reqs |-> <<>>]

Send(r, response) ==
  /\ resp' = [resp EXCEPT ![r] = Append(@, response)]
  /\ rpc' = [rpc EXCEPT ![r] = "done"]

\* GET /api/release-notes: the controller reads the query parameters and
\* BigQueryService.getReleaseNotes issues its query
ReleaseNotesRequest(r) ==
  /\ rpc[r] = "idle"
  /\ \E p \in {"true", "false", "absent"} : summarize' = [summarize EXCEPT ![r] = p]
  /\ route' = [route EXCEPT ![r] = "notes"]
  /\ bqCalls' = [bqCalls EXCEPT ![r] = @ + 1]
  /\ rpc' = [rpc EXCEPT ![r] = "query"]
  /\ UNCHANGED <<apiKey, model, notes, bqErr, gemCalls, gemOut, resp>>
  /\ UNCHANGED nonApi

\* GET /api/meta/products: getDistinctProducts issues its query
MetaProductsRequest(r) ==
  /\ rpc[r] = "idle"
  /\ route' = [route EXCEPT ![r] = "products"]
  /\ bqCalls' = [bqCalls EXCEPT ![r] = @ + 1]
  /\ rpc' = [rpc EXCEPT ![r] = "query"]
  /\ UNCHANGED <<apiKey, model, summarize, notes, bqErr, gemCalls, gemOut, resp>>
  /\ UNCHANGED nonApi

\* GET /api/meta/types: getDistinctTypes issues its query
MetaTypesRequest(r) ==
  /\ rpc[r] = "idle"
  /\ route' = [route EXCEPT ![r] = "types"]
  /\ bqCalls' = [bqCalls EXCEPT ![r] = @ + 1]
  /\ rpc' = [rpc EXCEPT ![r] = "query"]
  /\ UNCHANGED <<apiKey, model, summarize, notes, bqErr, gemCalls, gemOut, resp>>
  /\ UNCHANGED nonApi

\* mutant: the controller's catch block logs the error and sends nothing
QueryFailsUnanswered(r) ==
  /\ rpc[r] = "query"
  /\ \E e \in WarehouseErrors : bqErr' = [bqErr EXCEPT ![r] = e]
  /\ rpc' = [rpc EXCEPT ![r] = "done"]
  /\ UNCHANGED <<apiKey, model, route, summarize, notes, bqCalls, gemCalls, gemOut, resp>>
  /\ UNCHANGED nonApi

\* bigquery.query rejects: the service logs and rethrows, the controller's
\* catch block answers (all three routes)
QueryFails(r) ==
  /\ rpc[r] = "query"
  /\ \E e \in WarehouseErrors :
       /\ bqErr' = [bqErr EXCEPT ![r] = e]
       /\ Send(r, ApiJson500(e))
  /\ UNCHANGED <<apiKey, model, route, summarize, notes, bqCalls, gemCalls, gemOut>>
  /\ UNCHANGED nonApi

\* getReleaseNotes (controller) once the service has returned the notes ns:
\* it answers at once, or generateSummary throws at once, or generateSummary
\* issues the call for the configured model
AfterQuery(r, ns) ==
  LET pre == PreflightError(apiKey, model) IN
    /\ notes' = [notes EXCEPT ![r] = ns]
    /\ IF ~WantsSummary(SummarizeFlag(summarize[r]), ns)
         THEN /\ Send(r, JsonNotes(ns, NoSummary, NullError))
              /\ UNCHANGED gemCalls
       ELSE IF ~isApiKeyConfigured(apiKey)
         THEN /\ Send(r, SummaryFailedResponse(ns, MsgKeyNotConfigured))
              /\ UNCHANGED gemCalls
       ELSE IF pre # <<>>
         THEN /\ Send(r, SummaryFailedResponse(ns, RethrownMessage(MsgGeneric(pre))))
              /\ UNCHANGED gemCalls
       ELSE /\ gemCalls' = [gemCalls EXCEPT ![r] = Append(@, model)]
            /\ rpc' = [rpc EXCEPT ![r] = "gemini"]
            /\ UNCHANGED resp

\* bigquery.query resolves for getReleaseNotes, the table's content being left
\* open: any of the row lists, mapped by the service, and the controller goes on
NotesQueryResolves(r) ==
  /\ rpc[r] = "query"
  /\ route[r] = "notes"
  /\ \E rows \in RowSets : AfterQuery(r, MapRows(rows))
  /\ UNCHANGED <<apiKey, model, route, summarize, bqCalls, bqErr, gemOut>>
  /\ UNCHANGED nonApi

\* bigquery.query resolves for getDistinctProducts / getDistinctTypes
MetaQueryResolves(r) ==
  /\ rpc[r] = "query"
  /\ route[r] \in {"products", "types"}
  /\ \E values \in {<<>>, <<"A">>, <<"A", "B">>} : Send(r, JsonMeta(route[r], values))
  /\ UNCHANGED <<apiKey, model, route, summarize, notes, bqCalls, bqErr, gemCalls, gemOut>>
  /\ UNCHANGED nonApi

\* mutant: the fallback replaces the service's model (this.model = fallback)
PrimarySettlesSwitching(r) ==
  /\ rpc[r] = "gemini"
  /\ \E o \in AxiosOutcomes :
       LET res == WithModelResult(o, model) IN
         /\ gemOut' = [gemOut EXCEPT ![r] = Append(@, o)]
         /\ IF res.ok
              THEN /\ Send(r, JsonNotes(notes[r], res.summary, NullError))
                   /\ UNCHANGED <<gemCalls, model>>
            ELSE IF ShouldFallback(model, res.message)
              THEN /\ gemCalls' = [gemCalls EXCEPT ![r] = Append(@, FallbackModel)]
                   /\ model' = FallbackModel
                   /\ rpc' = [rpc EXCEPT ![r] = "fallback"]
                   /\ UNCHANGED resp
            ELSE /\ Send(r, SummaryFailedResponse(notes[r], RethrownMessage(res.message)))
                 /\ UNCHANGED <<gemCalls, model>>
  /\ UNCHANGED <<apiKey, route, summarize, notes, bqCalls, bqErr>>
  /\ UNCHANGED nonApi

\* the call for the configured model settles: generateSummaryWithModel returns
\* or throws, generateSummary's catch block falls back or rethrows, and the
\* controller answers unless the fallback call is now pending
PrimarySettles(r) ==
  /\ rpc[r] = "gemini"
  /\ \E o \in AxiosOutcomes :
       LET res == WithModelResult(o, model) IN
         /\ gemOut' = [gemOut EXCEPT ![r] = Append(@, o)]
         /\ IF res.ok
              THEN /\ Send(r, JsonNotes(notes[r], res.summary, NullError))
                   /\ UNCHANGED gemCalls
            ELSE IF ShouldFallback(model, res.message)
              THEN /\ gemCalls' = [gemCalls EXCEPT ![r] = Append(@, FallbackModel)]
                   /\ rpc' = [rpc EXCEPT ![r] = "fallback"]
                   /\ UNCHANGED resp
            ELSE /\ Send(r, SummaryFailedResponse(notes[r], RethrownMessage(res.message)))
                 /\ UNCHANGED gemCalls
  /\ UNCHANGED <<apiKey, model, route, summarize, notes, bqCalls, bqErr>>
  /\ UNCHANGED nonApi

\* mutant: a failed fallback call is tried again
FallbackSettlesRetrying(r) ==
  /\ rpc[r] = "fallback"
  /\ \E o \in AxiosOutcomes :
       LET res == WithModelResult(o, FallbackModel) IN
         /\ gemOut' = [gemOut EXCEPT ![r] = Append(@, o)]
         /\ IF res.ok
              THEN /\ Send(r, JsonNotes(notes[r], res.summary, NullError))
                   /\ UNCHANGED gemCalls
            ELSE IF Len(gemCalls[r]) < 3
              THEN /\ gemCalls' = [gemCalls EXCEPT ![r] = Append(@, FallbackModel)]
                   /\ UNCHANGED <<rpc, resp>>
            ELSE /\ Send(r, SummaryFailedResponse(notes[r], res.message))
                 /\ UNCHANGED gemCalls
  /\ UNCHANGED <<apiKey, model, route, summarize, notes, bqCalls, bqErr>>
  /\ UNCHANGED nonApi

\* the call for the fallback model settles: its result or its error leaves
\* generateSummary as it is, and the controller answers
FallbackSettles(r) ==
  /\ rpc[r] = "fallback"
  /\ \E o \in AxiosOutcomes :
       LET res == WithModelResult(o, FallbackModel) IN
         /\ gemOut' = [gemOut EXCEPT ![r] = Append(@, o)]
         /\ IF res.ok
              THEN Send(r, JsonNotes(notes[r], res.summary, NullError))
              ELSE Send(r, SummaryFailedResponse(notes[r], res.message))
  /\ UNCHANGED <<apiKey, model, route, summarize, notes, bqCalls, bqErr, gemCalls>>
  /\ UNCHANGED nonApi

ApiNext ==
  \E r \in Reqs :
    \/ ReleaseNotesRequest(r)
    \/ MetaProductsRequest(r)
    \/ MetaTypesRequest(r)
    \/ QueryFails(r)
    \/ NotesQueryResolves(r)
    \/ MetaQueryResolves(r)
    \/ PrimarySettles(r)
    \/ FallbackSettles(r)

(***************************************************************************)
(* BigQueryService.getDateRange                                            *)
(***************************************************************************)
\* A timeframe is the sequence of its characters.
Timeframe7d == <<"7", "d">>
Timeframe30d == <<"3", "0", "d">>
Timeframe90d == <<"9", "0", "d">>
\* the three the dashboard offers, and two it does not
Timeframes == {Timeframe7d, Timeframe30d, Timeframe90d, <<"1", "4", "d">>,
               <<"r", "e", "c", "e", "n", "t">>}

Digits == {"0", "1", "2", "3", "4", "5", "6", "7", "8", "9"}
DigitValue(ch) == CHOOSE n \in 0..9 : ToString(n) = ch

\* s.replace(ch, ''): the first occurrence of ch is removed
ReplaceFirst(seq, ch) ==
  IF \A i \in 1..Len(seq) : seq[i] # ch THEN seq
  ELSE LET i == CHOOSE k \in 1..Len(seq) : seq[k] = ch /\ \A j \in 1..(k - 1) : seq[j] # ch
       IN SubSeq(seq, 1, i - 1) \o SubSeq(seq, i + 1, Len(seq))

\* parseInt(s): the number its leading digits spell, NaN when it has none
RECURSIVE DigitsValue(_, _)
DigitsValue(seq, acc) ==
  IF seq = <<>> \/ seq[1] \notin Digits THEN acc
  ELSE DigitsValue(Tail(seq), 10 * acc + DigitValue(seq[1]))
ParseInt(seq) ==
  IF seq = <<>> \/ seq[1] \notin Digits THEN [nan |-> TRUE, value |-> 0]
  ELSE [nan |-> FALSE, value |-> DigitsValue(seq, 0)]

\* Day number of a calendar day (month 1-12), counted from 1970-01-01, and
\* its inverse: the arithmetic behind the Date object's MakeDay/DateFromTime.
DayNumber(y, m, d) ==
  LET yy == IF m <= 2 THEN y - 1 ELSE y
      era == yy \div 400
      yoe == yy - era * 400
      mp == IF m > 2 THEN m - 3 ELSE m + 9
      doy == (153 * mp + 2) \div 5 + d - 1
      doe == yoe * 365 + yoe \div 4 - yoe \div 100 + doy
  IN era * 146097 + doe - 719468
CivilFromDayNumber(n) ==
  LET z == n + 719468
      era == z \div 146097
      doe == z - era * 146097
      yoe == (doe - doe \div 1460 + doe \div 36524 - doe \div 146096) \div 365
      doy == doe - (365 * yoe + yoe \div 4 - yoe \div 100)
      mp == (5 * doy + 2) \div 153
      d == doy - (153 * mp + 2) \div 5 + 1
      m == IF mp < 10 THEN mp + 3 ELSE mp - 9
  IN [year |-> (IF m <= 2 THEN yoe + era * 400 + 1 ELSE yoe + era * 400),
      month |-> m - 1, date |-> d]

\* mutant: a day of the month below 1 stops at the first of the month
SetDateClamped(t, dayOfMonth) ==
  [year |-> t.year, month |-> t.month, date |-> IF dayOfMonth < 1 THEN 1 ELSE dayOfMonth]
\* Date.prototype.setDate on local fields (month 0-11): a day of the month
\* outside the month rolls over into the neighbouring months and years
SetDate(t, dayOfMonth) ==
  CivilFromDayNumber(DayNumber(t.year, t.month + 1, 1) + dayOfMonth - 1)

\* String(n).padStart(2, '0') as its two digits
PadStart2(n) == <<n \div 10, n % 10>>
\* formatDate: `${year}-${month}-${day}` of a valid Date from its local fields
formatDate(t) ==
  [valid |-> TRUE, year |-> t.year, month |-> PadStart2(t.month + 1), day |-> PadStart2(t.date)]
\* formatDate of an invalid Date: 'NaN-NaN-NaN'
FormattedNaN == [valid |-> FALSE, year |-> 0, month |-> <<>>, day |-> <<>>]

\* getDateRange(timeframe) when new Date() is now
getDateRange(now, timeframe) ==
  LET days == ParseInt(ReplaceFirst(timeframe, "d")) IN
    [startDate |-> (IF days.nan THEN FormattedNaN
                    ELSE formatDate(SetDate(now, now.date - days.value))),
     endDate |-> formatDate(now)]

\* the current dates considered: every day of a common year, of a leap year
\* and of a century year that is not a leap year
DateYears == {2023, 2024, 2100}
IsLeapYear(y) == (y % 4 = 0 /\ y % 100 # 0) \/ y % 400 = 0
DaysInMonth(y, m) ==
  IF m = 1 THEN (IF IsLeapYear(y) THEN 29 ELSE 28)
  ELSE IF m \in {3, 5, 8, 10} THEN 30 ELSE 31
CurrentDates ==
  {[year |-> y, month |-> m, date |-> d] :
     y \in DateYears, m \in 0..11, d \in 1..31} \ 
  {t \in [year : DateYears, month : 0..11, date : 29..31] : t.date > DaysInMonth(t.year, t.month)}

NoRange == [startDate |-> FormattedNaN, endDate |-> FormattedNaN]

DateInit ==
  /\ dnow \in CurrentDates
  /\ dtimeframe \in Timeframes
  /\ drange = NoRange

\* getDateRange runs
GetDateRange ==
  /\ drange = NoRange
  /\ drange' = getDateRange(dnow, dtimeframe)
  /\ UNCHANGED <<dnow, dtimeframe>>
  /\ UNCHANGED nonDate

DateNext == GetDateRange

(***************************************************************************)
(* Reply parsing applied to one reply                                      *)
(***************************************************************************)
\* longest reply text considered, in fragments
MaxTextLen == 5
\* the fragments a reply is made of here
ReplyFragments == {"## Industry Use Cases", "##", "\n", "|", "---", " ", "Retail"}
SmallTexts == UNION {[1..n -> ReplyFragments] : n \in 0..MaxTextLen}

Unparsed == [ok |-> FALSE, summary |-> NoSummary, message |-> <<"unparsed">>]
\* axios.post resolved with a reply whose first part holds this text
RepliedWith(text) ==
  [isAxiosError |-> FALSE, timer |-> FALSE, status |-> 200, code |-> "", message |-> <<>>,
   data |-> [present |-> TRUE, candidates |-> <<[parts |-> <<[text |-> text]>>]>>]]

ParseInit ==
  /\ ptext \in SmallTexts
  /\ presult = Unparsed

\* generateSummaryWithModel handles the reply
ParseReply ==
  /\ presult = Unparsed
  /\ presult' = WithModelResult(RepliedWith(ptext), ModelPro15)
  /\ UNCHANGED ptext
  /\ UNCHANGED nonParse

ParseNext == ParseReply

(***************************************************************************)
(* VisitorCounter component                                                *)
(***************************************************************************)
\* number of times the component mounts in the session
NumMounts == 3
Mounts == 1..NumMounts
\* largest count the backend may hold when the session starts
MaxSiteCount == 2

FlagUnset == "null"
FlagSet == "true"

FrontInit ==
  /\ sessionFlag = FlagUnset
  /\ mpc = [m \in Mounts |-> "unmounted"]
  /\ incPosts = 0
  /\ siteCount \in 0..MaxSiteCount
  /\ shown = [m \in Mounts |-> -1]

\* mutant: the flag is set before the increment request is awaited
MountFlagFirst(m) ==
  /\ mpc[m] = "unmounted"
  /\ IF sessionFlag = FlagUnset
       THEN /\ incPosts' = incPosts + 1
            /\ sessionFlag' = FlagSet
            /\ mpc' = [mpc EXCEPT ![m] = "incrementing"]
       ELSE /\ mpc' = [mpc EXCEPT ![m] = "getting"]
            /\ UNCHANGED <<incPosts, sessionFlag>>
  /\ UNCHANGED <<siteCount, shown>>
  /\ UNCHANGED nonFront

\* the component mounts: the effect calls initializeCounter, which reads the
\* session flag and sends the increment request, or goes straight to the get
Mount(m) ==
  /\ mpc[m] = "unmounted"
  /\ IF sessionFlag = FlagUnset
       THEN /\ incPosts' = incPosts + 1
            /\ mpc' = [mpc EXCEPT ![m] = "incrementing"]
       ELSE /\ mpc' = [mpc EXCEPT ![m] = "getting"]
            /\ UNCHANGED incPosts
  /\ UNCHANGED <<sessionFlag, siteCount, shown>>
  /\ UNCHANGED nonFront

\* await api.incrementVisitorCounter() resolves: the backend has counted the
\* visit; the flag is set and the get request is sent
IncrementResolves(m) ==
  /\ mpc[m] = "incrementing"
  /\ siteCount' = siteCount + 1
  /\ sessionFlag' = FlagSet
  /\ mpc' = [mpc EXCEPT ![m] = "getting"]
  /\ UNCHANGED <<incPosts, shown>>
  /\ UNCHANGED nonFront

\* await api.incrementVisitorCounter() rejects: the catch block sets the error
\* and the component renders nothing; the flag stays as it is
IncrementRejects(m) ==
  /\ mpc[m] = "incrementing"
  /\ mpc' = [mpc EXCEPT ![m] = "hidden"]
  /\ UNCHANGED <<sessionFlag, incPosts, siteCount, shown>>
  /\ UNCHANGED nonFront

\* await api.getVisitorCounter() resolves: setCount(response.count)
CountResolves(m) ==
  /\ mpc[m] = "getting"
  /\ shown' = [shown EXCEPT ![m] = siteCount]
  /\ mpc' = [mpc EXCEPT ![m] = "shown"]
  /\ UNCHANGED <<sessionFlag, incPosts, siteCount>>
  /\ UNCHANGED nonFront

\* await api.getVisitorCounter() rejects: the catch block sets the error
CountRejects(m) ==
  /\ mpc[m] = "getting"
  /\ mpc' = [mpc EXCEPT ![m] = "hidden"]
  /\ UNCHANGED <<sessionFlag, incPosts, siteCount, shown>>
  /\ UNCHANGED nonFront

FrontNext ==
  \E m \in Mounts :
    \/ Mount(m)
    \/ IncrementResolves(m)
    \/ IncrementRejects(m)
    \/ CountResolves(m)
    \/ CountRejects(m)

(***************************************************************************)
(* Configuration and start-up                                              *)
(***************************************************************************)
\* a model name no list knows and no experimental marker matches
ModelCustom == <<"gemini", "1.5", "pro", "002">>
\* the values GEMINI_MODEL may hold, <<>> when it is not set
EnvModels == ConfigModels \cup {ModelCustom, <<>>}

VALID_GEMINI_MODELS ==
  {ModelPro15, <<"gemini", "1.5", "flash">>, <<"gemini", "1.0", "pro">>, <<"gemini", "pro">>,
   <<"gemini", "pro", "vision">>, ModelExp25, ModelFlash20}

\* the repository holds more than one config module; the two the service's
\* version of the configuration can come from
ConfigModules == {"config/index.ts", "part_015"}

\* config/index.ts: the default when unset, then any name outside
\* VALID_GEMINI_MODELS is replaced by 'gemini-1.5-pro' (with a warning)
ConfigModelValidated(name) ==
  LET geminiModel == IF name = <<>> THEN ModelPro15 ELSE name IN
    IF geminiModel \in VALID_GEMINI_MODELS THEN geminiModel ELSE ModelPro15
\* part_015: the fallback model when unset; an unknown name is kept (warning)
ConfigModelKept(name) == IF name = <<>> THEN FallbackModel ELSE name
ConfigModel(module, name) ==
  IF module = "config/index.ts" THEN ConfigModelValidated(name) ELSE ConfigModelKept(name)

NoConfig == [apiKey |-> KeyUnset, model |-> <<>>]

\* the config module is evaluated: config.vertexAI
LoadConfig ==
  /\ boot = "env"
  /\ cfg' = [apiKey |-> envKey, model |-> ConfigModel(configModule, envModel)]
  /\ boot' = "configured"
  /\ UNCHANGED <<configModule, envKey, envModel, reqNow, reqQuery, bqOptions>>
  /\ UNCHANGED avars
  /\ UNCHANGED nonServer

\* index.ts constructs the controllers and their services and listens: the
\* GeminiService constructor takes the key and the model from the config
ConstructServices ==
  /\ boot = "configured"
  /\ apiKey' = cfg.apiKey
  /\ model' = ConstructedModel(cfg.model)
  /\ boot' = "serving"
  /\ UNCHANGED <<rpc, route, summarize, notes, bqCalls, bqErr, gemCalls, gemOut, resp>>
  /\ UNCHANGED <<configModule, envKey, envModel, cfg, reqNow, reqQuery, bqOptions>>
  /\ UNCHANGED nonServer

(***************************************************************************)
(* BigQueryService.getReleaseNotes against a table                         *)
(***************************************************************************)
\* the day a YYYY-MM-DD text names, as the warehouse's DATE() reads it
DateOrdinal(f) ==
  DayNumber(f.year, 10 * f.month[1] + f.month[2], 10 * f.day[1] + f.day[2])

TableRow(product, type, text, y, m, d) ==
  [product_name |-> product, release_note_type |-> type, description |-> text,
   published_at |-> [value |-> [year |-> y, month |-> PadStart2(m), day |-> PadStart2(d)]]]
\* the release-notes table: rows on, just inside, just outside and after the
\* windows of the request dates below, two of them on the same day
Warehouse ==
  {TableRow("BigQuery", "FEATURE", "n1", 2024, 3, 5),
   TableRow("BigQuery", "FIX", "n2", 2024, 3, 4),
   TableRow("Cloud Run", "FEATURE", "n3", 2024, 3, 4),
   TableRow("BigQuery", "FEATURE", "n4", 2024, 2, 27),
   TableRow("Cloud Run", "FEATURE", "n5", 2024, 2, 26),
   TableRow("BigQuery", "FEATURE", "n6", 2023, 12, 27),
   TableRow("BigQuery", "FEATURE", "n7", 2024, 3, 6)}
\* new Date() when the request is served
RequestDates == {[year |-> 2024, month |-> 2, date |-> 5], [year |-> 2024, month |-> 0, date |-> 3]}

\* the query parameters a request may carry, <<>> when absent or empty
TimeframeParams == Timeframes \cup {<<>>}
TypesParams == {<<>>, <<"FEATURE">>, <<"FEATURE", ",", "FIX">>}
ProductsParams == {<<>>, <<"BigQuery">>, <<"BigQuery", ",", "Cloud Run">>}

\* (req.query.timeframe as string) || '7d'
TimeframeOf(param) == IF param = <<>> THEN Timeframe7d ELSE param
\* req.query.x ? (req.query.x as string).split(',') : []
SplitParam(param) ==
  IF param = <<>> THEN <<>>
  ELSE LET parts == SplitAt(param, {","}) IN
         [i \in 1..Len(parts) |-> IF parts[i] = <<>> THEN "" ELSE parts[i][1]]

NoOptions ==
  [startDate |-> FormattedNaN, endDate |-> FormattedNaN, typesClause |-> FALSE,
   productsClause |-> FALSE, types |-> <<>>, products |-> <<>>]
\* mutant: the type filter is left out of the query
QueryOptionsNoTypes(now, timeframe, types, products) ==
  LET range == getDateRange(now, timeframe) IN
    [startDate |-> range.startDate, endDate |-> range.endDate,
     typesClause |-> FALSE, productsClause |-> Len(products) > 0,
     types |-> types, products |-> products]
\* the query text and params getReleaseNotes builds: the IN clauses are part
\* of the text only for a non-empty list
QueryOptions(now, timeframe, types, products) ==
  LET range == getDateRange(now, timeframe) IN
    [startDate |-> range.startDate, endDate |-> range.endDate,
     typesClause |-> Len(types) > 0, productsClause |-> Len(products) > 0,
     types |-> types, products |-> products]

SeqRange(q) == {q[i] : i \in 1..Len(q)}
\* the WHERE clause of the query, as the warehouse evaluates it on a row
RowSelected(row, o) ==
  /\ DateOrdinal(o.startDate) <= DateOrdinal(row.published_at.value)
  /\ DateOrdinal(row.published_at.value) <= DateOrdinal(o.endDate)
  /\ o.typesClause => row.release_note_type \in SeqRange(o.types)
  /\ o.productsClause => row.product_name \in SeqRange(o.products)
\* ORDER BY published_at DESC: every order of the rows in which no row comes
\* before one of a later day (rows of one day come in any order)
RECURSIVE OrdersByDateDesc(_)
OrdersByDateDesc(rows) ==
  IF rows = {} THEN {<<>>}
  ELSE UNION {{<<first>> \o rest : rest \in OrdersByDateDesc(rows \ {first})} :
                first \in {x \in rows : \A y \in rows :
                             DateOrdinal(x.published_at.value) >= DateOrdinal(y.published_at.value)}}
QueryResults(o) == OrdersByDateDesc({row \in Warehouse : RowSelected(row, o)})
\* what the warehouse rejects a query with when a date parameter is no date
InvalidDateError == <<"Invalid date: 'NaN-NaN-NaN'">>

NoDate == [year |-> 0, month |-> 0, date |-> 0]
NoQuery == [timeframe |-> <<>>, types |-> <<>>, products |-> <<>>]

\* GET /api/release-notes with its query string, no other request being under
\* way: the controller reads the parameters, getReleaseNotes computes the date
\* range and issues the query
FilteredNotesRequest(r) ==
  /\ boot = "serving"
  /\ \A other \in Reqs : rpc[other] = "idle"
  /\ \E now \in RequestDates, tf \in TimeframeParams, ty \in TypesParams,
        pr \in ProductsParams, p \in {"true", "false", "absent"} :
       /\ summarize' = [summarize EXCEPT ![r] = p]
       /\ reqNow' = [reqNow EXCEPT ![r] = now]
       /\ reqQuery' = [reqQuery EXCEPT ![r] = [timeframe |-> tf, types |-> ty, products |-> pr]]
       /\ bqOptions' = [bqOptions EXCEPT ![r] =
                          QueryOptions(now, TimeframeOf(tf), SplitParam(ty), SplitParam(pr))]
  /\ route' = [route EXCEPT ![r] = "notes"]
  /\ bqCalls' = [bqCalls EXCEPT ![r] = @ + 1]
  /\ rpc' = [rpc EXCEPT ![r] = "query"]
  /\ UNCHANGED <<apiKey, model, notes, bqErr, gemCalls, gemOut, resp>>
  /\ UNCHANGED <<boot, configModule, envKey, envModel, cfg>>
  /\ UNCHANGED nonServer

\* the warehouse evaluates the query: it rejects one whose date is no date
\* (the controller's catch block answers), else it resolves with the selected
\* rows in order, the service maps them and the controller goes on
WarehouseAnswers(r) ==
  /\ rpc[r] = "query"
  /\ route[r] = "notes"
  /\ IF ~bqOptions[r].startDate.valid
       THEN /\ bqErr' = [bqErr EXCEPT ![r] = InvalidDateError]
            /\ Send(r, ApiJson500(InvalidDateError))
            /\ UNCHANGED <<notes, gemCalls>>
       ELSE /\ \E rows \in QueryResults(bqOptions[r]) : AfterQuery(r, MapRows(rows))
            /\ UNCHANGED bqErr
  /\ UNCHANGED <<apiKey, model, route, summarize, bqCalls, gemOut>>
  /\ UNCHANGED svars
  /\ UNCHANGED nonServer

ServerInit ==
  /\ boot = "env"
  /\ configModule \in ConfigModules
  /\ envKey \in ConfigKeys
  /\ envModel \in EnvModels
  /\ cfg = NoConfig
  /\ reqNow = [r \in Reqs |-> NoDate]
  /\ reqQuery = [r \in Reqs |-> NoQuery]
  /\ bqOptions = [r \in Reqs |-> NoOptions]

ServerNext ==
  \/ LoadConfig
  \/ ConstructServices
  \/ \E r \in Reqs :
       \/ FilteredNotesRequest(r)
       \/ WarehouseAnswers(r)
       \/ QueryFails(r)
       \/ PrimarySettles(r)
       \/ FallbackSettles(r)

(***************************************************************************)
(* Filter lists: api.getReleaseNotes to the controller's split             *)
(***************************************************************************)
\* longest list selected
MaxSelected == 3
\* names the warehouse's columns may hold, as fragments: a type, a product
\* with a blank, a product with a comma, and the empty name
FilterNames == {<<"FEATURE">>, <<"Cloud Run">>, <<"Anthos", ",", " GKE">>, <<>>}
SelectedLists == UNION {[1..n -> FilterNames] : n \in 0..MaxSelected}

\* list.join(',')
RECURSIVE Join(_)
Join(list) ==
  IF Len(list) = 0 THEN <<>>
  ELSE IF Len(list) = 1 THEN list[1]
  ELSE list[1] \o <<",">> \o Join(Tail(list))

\* URLSearchParams serialises a value: ',' as %2C, a blank as '+'
EncodeFragment(f) ==
  CASE f = "," -> "%2C"
    [] f = "Cloud Run" -> "Cloud+Run"
    [] f = " GKE" -> "+GKE"
    [] OTHER -> f
\* the query-string parser of express decodes it
DecodeFragment(f) ==
  CASE f = "%2C" -> ","
    [] f = "Cloud+Run" -> "Cloud Run"
    [] f = "+GKE" -> " GKE"
    [] OTHER -> f
Encode(value) == [i \in 1..Len(value) |-> EncodeFragment(value[i])]
Decode(value) == [i \in 1..Len(value) |-> DecodeFragment(value[i])]

NotSent == [present |-> FALSE, value |-> <<>>]
\* if (params.types?.length) searchParams.set('types', params.types.join(','))
SentParam(list) ==
  IF Len(list) = 0 THEN NotSent ELSE [present |-> TRUE, value |-> Encode(Join(list))]

\* req.query.types ? (req.query.types as string).split(',') : []
\* (undefined and '' are both falsy)
ParsedParam(q) ==
  IF ~q.present \/ Decode(q.value) = <<>> THEN <<>>
  ELSE SplitAt(Decode(q.value), {","})

ListInit ==
  /\ selected \in SelectedLists
  /\ lpc = "selected"
  /\ sentQuery = NotSent
  /\ parsedList = <<>>

\* api.getReleaseNotes builds the query string and fetches
SendFilters ==
  /\ lpc = "selected"
  /\ sentQuery' = SentParam(selected)
  /\ lpc' = "sent"
  /\ UNCHANGED <<selected, parsedList>>
  /\ UNCHANGED nonList

\* the controller reads req.query
ParseFilters ==
  /\ lpc = "sent"
  /\ parsedList' = ParsedParam(sentQuery)
  /\ lpc' = "parsed"
  /\ UNCHANGED <<selected, sentQuery>>
  /\ UNCHANGED nonList

ListNext == SendFilters \/ ParseFilters

(***************************************************************************)
(* GeminiService: console output                                           *)
(***************************************************************************)
\* this.apiKey.slice(-4)
LastFour(key) ==
  CASE key = KeyReal -> "-key"
    [] key = KeyPlaceholder -> "HERE"
    [] OTHER -> ""

\* the constructor's "Initializing Gemini service with:" lines
ConstructorLog(key, m) ==
  << <<"Initializing Gemini service with:">>,
     IF key.text # "" THEN <<"- API Key: ", "********", LastFour(key)>>
                      ELSE <<"- API Key: ", "NOT SET">>,
     <<"- Model: ">> \o m >>

\* `${apiBaseUrl}/models/${modelToUse}:generateContent?key=${this.apiKey}`
Endpoint(key, m) ==
  <<IF isExperimentalModel(m) THEN "https://generativelanguage.googleapis.com/v1beta"
                              ELSE "https://generativelanguage.googleapis.com/v1",
    "/models/">> \o m \o <<":generateContent?key=", key.text>>

\* s.replace(frag, by): the first occurrence
ReplaceWith(seq, frag, by) ==
  IF \A i \in 1..Len(seq) : seq[i] # frag THEN seq
  ELSE LET i == CHOOSE k \in 1..Len(seq) : seq[k] = frag /\ \A j \in 1..(k - 1) : seq[j] # frag
       IN SubSeq(seq, 1, i - 1) \o <<by>> \o SubSeq(seq, i + 1, Len(seq))

\* what console.error writes for the error object it is passed: the stack
\* (name and message) and, for an AxiosError, its own properties, the code and
\* the request config with its url among them
InspectError(t, key, m) ==
  IF t.isAxiosError
    THEN <<"AxiosError: ">> \o t.message \o <<" { code: ", t.code, ", config: { url: ">>
           \o Endpoint(key, m) \o <<", method: ", "post", " } }">>
    ELSE <<"Error: ">> \o t.message

\* generateSummaryWithModel up to its axios.post
LogBeforeCall(key, m) ==
  << <<"Starting to generate summary with direct API...">>,
     <<"Using Gemini model: ">> \o m,
     <<"Sending request to Gemini API at ">> \o ReplaceWith(Endpoint(key, m), key.text, "***"),
     <<"Request payload structure:", "contents", "generationConfig">> >>

\* the rest of its try block, once axios.post has settled with o
LogAfterCall(o) ==
  IF o.isAxiosError THEN <<>>
  ELSE << <<"Received response from Gemini API:", ToString(o.status)>>,
          <<"Response data structure:">> \o ExtractText(o.data) >>
       \o (IF ~o.data.present THEN << <<"Empty response from Gemini API">> >>
           ELSE IF ExtractText(o.data) = <<>>
             THEN << <<"Could not extract text from response:">> >>
           ELSE << <<"Successfully received text response">> >>)

\* its catch block
LogCatch(t, key, m) ==
  << <<"Error generating summary with model">> \o m \o <<":">> \o InspectError(t, key, m) >>
  \o (IF t.isAxiosError
        THEN << <<"Axios error details:", ToString(t.status), " url: ">>
                  \o ReplaceWith(Endpoint(key, m), key.text, "***") \o <<" method: ", "post">> >>
        ELSE <<>>)

\* all the lines of one generateSummaryWithModel(notes, m) whose call settles
\* with o
LogOfCall(key, m, o) ==
  LET t == TryBody(o) IN
    LogBeforeCall(key, m) \o LogAfterCall(o)
      \o (IF t.ok THEN <<>> ELSE LogCatch(t, key, m))

NotCalled == [isAxiosError |-> FALSE, timer |-> FALSE, status |-> 0, code |-> "not called",
              message |-> <<>>, data |-> NoData]

LogInit ==
  /\ apiKey \in ConfigKeys
  /\ model \in {ConstructedModel(m) : m \in ConfigModels}
  /\ lout = <<>>
  /\ logged = ConstructorLog(apiKey, model)

\* generateSummary: the key check throws (the controller logs the error), or
\* the call for the configured model is made and settles
PrimaryLogs ==
  /\ lout = <<>>
  /\ IF ~isApiKeyConfigured(apiKey)
       THEN /\ lout' = <<NotCalled>>
            /\ logged' = Append(logged, <<"Error generating summary:", "Error: ">>
                                          \o MsgKeyNotConfigured)
       ELSE \E o \in AxiosOutcomes :
              /\ lout' = <<o>>
              /\ logged' = logged \o LogOfCall(apiKey, model, o)
  /\ UNCHANGED nonLog

\* generateSummary's catch block falls back: the call for gemini-1.5-pro
FallbackLogs ==
  /\ Len(lout) = 1
  /\ lout[1] # NotCalled
  /\ LET res == WithModelResult(lout[1], model) IN
       ~res.ok /\ ShouldFallback(model, res.message)
  /\ \E o \in AxiosOutcomes :
       /\ lout' = Append(lout, o)
       /\ logged' = logged \o << <<"Experimental model ">> \o model
                                   \o <<" failed with empty response. Falling back">> >>
                           \o LogOfCall(apiKey, FallbackModel, o)
  /\ UNCHANGED nonLog

LogNext == PrimaryLogs \/ FallbackLogs

(***************************************************************************)
(* index.ts: the middleware chain and the routes                           *)
(***************************************************************************)
\* A path is the sequence of its segments: <<>> is "/", <<"api", "x">> is
\* "/api/x".
Methods == {"GET", "POST", "DELETE", "OPTIONS"}
ApiPaths ==
  {<<"api", "release-notes">>, <<"api", "meta", "products">>, <<"api", "meta", "types">>,
   <<"api", "visitor-counter", "increment">>, <<"api", "visitor-counter">>,
   <<"api", "unknown">>}
OtherPaths ==
  {<<>>, <<"index.html">>, <<"dashboard">>, <<"assets", "index.js">>,
   <<"assets", "missing.js">>, <<"health">>, <<"debug">>, <<"test">>, <<"check-assets">>,
   <<"static-test">>, <<"static-file-test", "index.html">>}
Paths == ApiPaths \cup OtherPaths
ForwardedProtos == {"http", "https", "absent"}
Bodies == {"none", "malformed"}
NodeEnvs == {"production", "development"}
\* the frontend build copied to ../public, or nothing there
BuiltFiles == {<<"index.html">>, <<"assets", "index.js">>}
PublicDirs == {BuiltFiles, {}}

\* a response: status, the middleware or route that sent it, what it carries
\* (the error field of a JSON error, the file sent, the redirect target) and
\* the message field of a JSON error
Answer(status, by, body, message) ==
  [status |-> status, by |-> by, body |-> body, message |-> message]

\* req.path.startsWith('/api/')
UnderApi(path) == Len(path) >= 2 /\ path[1] = "api"

\* the first middleware: forwardedProto === 'http' && req.path !== '/health'
\* && !req.path.startsWith('/api/')
RedirectsToHttps(req) ==
  req.proto = "http" /\ req.path # <<"health">> /\ ~UnderApi(req.path)

\* app.get / app.post of the controllers' routes: the handler, "none" if no
\* route matches
MatchedHandler(req) ==
  CASE req.method = "GET" /\ req.path = <<"api", "release-notes">> -> "getReleaseNotes"
    [] req.method = "GET" /\ req.path = <<"api", "meta", "products">> -> "getDistinctProducts"
    [] req.method = "GET" /\ req.path = <<"api", "meta", "types">> -> "getDistinctTypes"
    [] req.method = "POST" /\ req.path = <<"api", "visitor-counter", "increment">> ->
         "incrementCounter"
    [] req.method = "GET" /\ req.path = <<"api", "visitor-counter">> -> "getCounter"
    [] OTHER -> "none"

\* the handler's response: its payload, or its catch block's 500 when the
\* call it awaits rejects with the message fail
ControllerAnswer(handler, fail) ==
  IF fail = <<>> THEN Answer(200, "controller", <<handler>>, <<>>)
  ELSE IF handler = "incrementCounter"
    THEN Answer(500, "controller", <<Json500("").error>>,
                <<Json500(IncrementFailure(fail[1])).message>>)
  ELSE IF handler = "getCounter"
    THEN Answer(500, "controller", <<Json500("").error>>,
                <<Json500(GetFailure(fail[1])).message>>)
  ELSE Answer(500, "controller", <<ApiJson500(fail).error>>, ApiJson500(fail).message)

\* app.get('/health'), '/debug', '/test', '/check-assets',
\* '/static-file-test/:filename': JSON about the server
DiagnosticRoute(req) ==
  /\ req.method = "GET"
  /\ \/ req.path \in {<<"health">>, <<"debug">>, <<"test">>, <<"check-assets">>}
     \/ (Len(req.path) = 2 /\ req.path[1] = "static-file-test")

\* mutant: no static file is served
StaticFileNever(req, dir) == <<"none">>
\* express.static(../public): the file a GET names if it exists ("/" names
\* index.html), <<"none">> to fall through
StaticFile(req, dir) ==
  LET file == IF req.path = <<>> THEN <<"index.html">> ELSE req.path IN
    IF req.method = "GET" /\ file \in dir THEN file ELSE <<"none">>

\* mutant: the catch-all skips nothing
CatchAllSkipsNothing(path) == FALSE
\* the paths app.get('*') passes on with next()
CatchAllSkips(path) ==
  \/ UnderApi(path)
  \/ path \in {<<"health">>, <<"debug">>, <<"test">>}
  \/ (Len(path) >= 2 /\ path[1] \in {"static-file-test", "assets"})

\* the rest of app.get('*'): the test page, index.html, or the redirect to
\* the test page when index.html is missing
CatchAll(path, dir) ==
  IF path = <<"static-test">> THEN Answer(200, "catchAll", <<"Static Test Page">>, <<>>)
  ELSE IF <<"index.html">> \in dir THEN Answer(200, "catchAll", <<"index.html">>, <<>>)
  ELSE Answer(302, "catchAll", <<"static-test">>, <<>>)

\* the 404 handler
NotFound == Answer(404, "notFound", <<"Not Found">>, <<>>)

\* the message of the SyntaxError express.json passes to next()
BodyParseError == <<"Unexpected token", " in JSON">>

\* the error-handling middleware
ErrorMiddleware(env, msg) ==
  Answer(500, "errorMiddleware", <<"Internal Server Error">>,
         IF env = "production" THEN <<"Something went wrong">> ELSE msg)

\* the whole chain, in the order of registration
Respond(req, env, dir, fail) ==
  IF RedirectsToHttps(req) THEN Answer(301, "httpsRedirect", <<"https">> \o req.path, <<>>)
  ELSE IF req.method = "OPTIONS" THEN Answer(204, "cors", <<>>, <<>>)
  ELSE IF req.body = "malformed" THEN ErrorMiddleware(env, BodyParseError)
  ELSE IF req.overLimit THEN Answer(429, "rateLimit", <<"Too many requests">>, <<>>)
  ELSE IF MatchedHandler(req) # "none" THEN ControllerAnswer(MatchedHandler(req), fail)
  ELSE IF DiagnosticRoute(req) /\ req.path \in {<<"health">>, <<"debug">>, <<"test">>}
    THEN Answer(200, "diagnostic", req.path, <<>>)
  ELSE IF StaticFile(req, dir) # <<"none">>
    THEN Answer(200, "static", StaticFile(req, dir), <<>>)
  ELSE IF DiagnosticRoute(req) THEN Answer(200, "diagnostic", req.path, <<>>)
  ELSE IF req.method = "GET" /\ ~CatchAllSkips(req.path) THEN CatchAll(req.path, dir)
  ELSE NotFound

\* the errors the call awaited by a request's handler may reject with
\* (<<>>: it resolves)
FailuresOf(req) ==
  CASE MatchedHandler(req) \in {"getReleaseNotes", "getDistinctProducts", "getDistinctTypes"} ->
         {<<>>} \cup WarehouseErrors
    [] MatchedHandler(req) \in {"incrementCounter", "getCounter"} ->
         {<<>>} \cup {<<e>> : e \in StoreErrors}
    [] OTHER -> {<<>>}

Requests ==
  [method : Methods, path : Paths, proto : ForwardedProtos, body : Bodies,
   overLimit : BOOLEAN]

RouteInit ==
  /\ nodeEnv \in NodeEnvs
  /\ publicDir \in PublicDirs
  /\ hreq \in Requests
  /\ hfail \in FailuresOf(hreq)
  /\ hresp = <<>>

\* the server handles the request
HandleRequest ==
  /\ hresp = <<>>
  /\ hresp' = <<Respond(hreq, nodeEnv, publicDir, hfail)>>
  /\ UNCHANGED <<nodeEnv, publicDir, hreq, hfail>>
  /\ UNCHANGED nonRoute

RouteNext == HandleRequest

(***************************************************************************)
(* Specifications                                                          *)
(***************************************************************************)
\* the release-notes API at rest while the visitor counter is exercised
RequestsIdle ==
  /\ rpc = [r \in Reqs |-> "idle"]
  /\ route = [r \in Reqs |-> "none"]
  /\ summarize = [r \in Reqs |-> "absent"]
  /\ notes = [r \in Reqs |-> <<>>]
  /\ bqCalls = [r \in Reqs |-> 0]
  /\ bqErr = [r \in Reqs |-> <<>>]
  /\ gemCalls = [r \in Reqs |-> <<>>]
  /\ gemOut = [r \in Reqs |-> <<>>]
  /\ resp = [r \in Reqs |-> <<>>]
ApiAtRest == apiKey = KeyReal /\ model = ModelPro15 /\ RequestsIdle
\* the services not yet constructed
ApiUnbuilt == apiKey = KeyUnset /\ model = <<>> /\ RequestsIdle

\* the visitor counter at rest while the release-notes API is exercised
CounterAtRest ==
  /\ doc = NoDoc
  /\ doc0 = NoDoc
  /\ cpc = [c \in Clients |-> "idle"]
  /\ cop = [c \in Clients |-> "none"]
  /\ snap = [c \in Clients |-> NoDoc]
  /\ attempts = [c \in Clients |-> 0]
  /\ cerr = [c \in Clients |-> NoError]
  /\ cresp = [c \in Clients |-> <<>>]

\* no reply being parsed, no date range being computed, no component mounted
ParseAtRest == ptext = <<>> /\ presult = Unparsed
DateAtRest ==
  /\ dnow = [year |-> 2024, month |-> 0, date |-> 1]
  /\ dtimeframe = Timeframe7d
  /\ drange = NoRange
FrontAtRest ==
  /\ sessionFlag = FlagUnset
  /\ mpc = [m \in Mounts |-> "unmounted"]
  /\ incPosts = 0
  /\ siteCount = 0
  /\ shown = [m \in Mounts |-> -1]
\* no filter list under way, nothing logged, no request in the chain
ListAtRest ==
  /\ selected = <<>>
  /\ lpc = "selected"
  /\ sentQuery = NotSent
  /\ parsedList = <<>>
LogAtRest == lout = <<>> /\ logged = <<>>
RouteAtRest ==
  /\ nodeEnv = "development"
  /\ publicDir = BuiltFiles
  /\ hreq = [method |-> "GET", path |-> <<>>, proto |-> "https", body |-> "none",
             overLimit |-> FALSE]
  /\ hfail = <<>>
  /\ hresp = <<>>
OthersAtRest == ListAtRest /\ LogAtRest /\ RouteAtRest
\* the server started and serving with the services' key and model, the
\* environment being one that configures them
Serving ==
  /\ boot = "serving"
  /\ configModule = "part_015"
  /\ envKey = apiKey
  /\ envModel = model
  /\ cfg = [apiKey |-> apiKey, model |-> model]
  /\ reqNow = [r \in Reqs |-> NoDate]
  /\ reqQuery = [r \in Reqs |-> NoQuery]
  /\ bqOptions = [r \in Reqs |-> NoOptions]

\* the visitor-counter endpoints under concurrent clients
CounterSpecInit ==
  /\ CounterInit /\ ApiAtRest /\ Serving /\ ParseAtRest /\ DateAtRest /\ FrontAtRest
  /\ OthersAtRest
CounterSpec == CounterSpecInit /\ [][CounterNext]_vars

\* the release-notes endpoints under concurrent requests
ApiSpecInit ==
  /\ ApiInit /\ Serving /\ CounterAtRest /\ ParseAtRest /\ DateAtRest /\ FrontAtRest
  /\ OthersAtRest
ApiSpec == ApiSpecInit /\ [][ApiNext]_vars

\* getDateRange applied to each current date and timeframe
DateSpecInit ==
  /\ DateInit /\ CounterAtRest /\ ApiAtRest /\ Serving /\ ParseAtRest /\ FrontAtRest
  /\ OthersAtRest
DateSpec == DateSpecInit /\ [][DateNext]_vars

\* reply parsing applied to each small reply text
ParseSpecInit ==
  /\ ParseInit /\ CounterAtRest /\ ApiAtRest /\ Serving /\ DateAtRest /\ FrontAtRest
  /\ OthersAtRest
ParseSpec == ParseSpecInit /\ [][ParseNext]_vars

\* the component mounting several times in one browser session
FrontSpecInit ==
  /\ FrontInit /\ CounterAtRest /\ ApiAtRest /\ Serving /\ ParseAtRest /\ DateAtRest
  /\ OthersAtRest
FrontSpec == FrontSpecInit /\ [][FrontNext]_vars

\* the server from its environment to one release-notes request served
ServerSpecInit ==
  /\ ServerInit /\ ApiUnbuilt /\ CounterAtRest /\ ParseAtRest /\ DateAtRest /\ FrontAtRest
  /\ OthersAtRest
ServerSpec == ServerSpecInit /\ [][ServerNext]_vars

\* the five controller handlers, every call they await settling in the end.
\* The two controllers share no state, so one of them is exercised at a time,
\* the other staying at rest.
NumBusyClients == 2
NumBusyReqs == 1
BusyClients == 1..NumBusyClients
BusyReqs == 1..NumBusyReqs
ClientStep(c) ==
  TxGet(c) \/ TxCommit(c) \/ TxRetry(c) \/ TxFail(c) \/ GetRead(c) \/ GetFail(c)
RequestStep(r) ==
  \/ QueryFails(r) \/ NotesQueryResolves(r) \/ MetaQueryResolves(r)
  \/ PrimarySettles(r) \/ FallbackSettles(r)
HandlersNext ==
  \/ /\ ApiAtRest
     /\ \E c \in BusyClients : IncrementRequest(c) \/ GetRequest(c) \/ ClientStep(c)
  \/ /\ CounterAtRest
     /\ \E r \in BusyReqs :
          \/ ReleaseNotesRequest(r) \/ MetaProductsRequest(r) \/ MetaTypesRequest(r)
          \/ RequestStep(r)
HandlersSpecInit ==
  /\ (CounterInit /\ ApiAtRest) \/ (ApiInit /\ CounterAtRest)
  /\ Serving /\ ParseAtRest /\ DateAtRest /\ FrontAtRest
  /\ OthersAtRest
HandlersSpec ==
  /\ HandlersSpecInit
  /\ [][HandlersNext]_vars
  /\ \A c \in BusyClients : WF_vars(ClientStep(c))
  /\ \A r \in BusyReqs : WF_vars(RequestStep(r))

\* a filter list sent by the frontend and parsed by the controller
ListSpecInit ==
  /\ ListInit /\ CounterAtRest /\ ApiAtRest /\ Serving /\ ParseAtRest /\ DateAtRest
  /\ FrontAtRest /\ LogAtRest /\ RouteAtRest
ListSpec == ListSpecInit /\ [][ListNext]_vars

\* the console output of one summary generation
LogSpecInit ==
  /\ LogInit /\ RequestsIdle /\ Serving /\ CounterAtRest /\ ParseAtRest /\ DateAtRest
  /\ FrontAtRest /\ ListAtRest /\ RouteAtRest
LogSpec == LogSpecInit /\ [][LogNext]_vars

\* one request through the middleware chain and the routes
RouteSpecInit ==
  /\ RouteInit /\ CounterAtRest /\ ApiAtRest /\ Serving /\ ParseAtRest /\ DateAtRest
  /\ FrontAtRest /\ ListAtRest /\ LogAtRest
RouteSpec == RouteSpecInit /\ [][RouteNext]_vars

(***************************************************************************)
(* Properties                                                              *)
(***************************************************************************)
IncClients == {c \in Clients : cop[c] = "inc"}
Answered(c) == cpc[c] = "done" /\ Len(cresp[c]) = 1
Done(r) == rpc[r] = "done" /\ Len(resp[r]) = 1
Reply(r) == resp[r][1]

\* a generative call that failed: an axios error, an empty body, or no text
OutcomeFailed(o) ==
  o.isAxiosError \/ ~o.data.present \/ ExtractText(o.data) = <<>>

\* generateSummary was entered and failed: the key check threw, or the last
\* call made failed
SummaryAttempted(r) ==
  route[r] = "notes" /\ bqErr[r] = <<>> /\ summarize[r] = "true" /\ notes[r] # <<>>
SummaryFailed(r) ==
  SummaryAttempted(r) /\ (gemOut[r] = <<>> \/ OutcomeFailed(gemOut[r][Len(gemOut[r])]))

\* the first fragment of an error message names its kind
KindOf(msg) == msg[1]

\* C1: once every caller of incrementCounter has completed with its count,
\* the stored count is the starting count plus the number of callers, under
\* every interleaving of the transactions' reads and commits.
C1_NoLostUpdate ==
  (\A c \in IncClients : Answered(c) /\ cresp[c][1].status = 200)
    => CountOf(doc) = CountOf(doc0) + Cardinality(IncClients)

\* C1 witness: all clients incremented, all completed, and one of them had
\* its commit refused and ran again.
C1_Witness ==
  /\ IncClients = Clients
  /\ \A c \in Clients : Answered(c) /\ cresp[c][1].status = 200
  /\ \E c \in Clients : attempts[c] >= 2
  /\ CountOf(doc) = CountOf(doc0) + NumClients

\* C2: with summarize=true and at least one note, a failure of
\* generateSummary still yields a 200 response with all the notes, no
\* summary, and summaryError = {message, details}.
C2_SummaryFailureKeepsNotes ==
  \A r \in Reqs :
    (Done(r) /\ SummaryFailed(r)) =>
      /\ Reply(r).status = 200
      /\ Reply(r).notes = notes[r]
      /\ ~Reply(r).summary.defined
      /\ ~Reply(r).summaryError.isNull
      /\ Reply(r).summaryError.message # <<>>
      /\ Reply(r).summaryError.details = SummaryErrorDetails

\* C2 witness: a request whose generative call was made and failed,
\* answered with its two notes.
C2_Witness ==
  \E r \in Reqs :
    /\ Done(r) /\ SummaryFailed(r)
    /\ Len(gemOut[r]) = 1 /\ gemOut[r][1].status = 500
    /\ Len(Reply(r).notes) = 2
    /\ Reply(r).status = 200

\* C3: with summarize=true and zero notes the generative API is never
\* called and the response has neither a summary nor a summary error.
C3_NoNotesNoCall ==
  \A r \in Reqs :
    /\ (route[r] = "notes" /\ notes[r] = <<>>) => gemCalls[r] = <<>>
    /\ (Done(r) /\ route[r] = "notes" /\ bqErr[r] = <<>> /\ summarize[r] = "true"
          /\ notes[r] = <<>>) =>
         /\ Reply(r).status = 200
         /\ ~Reply(r).summary.defined
         /\ Reply(r).summaryError.isNull

\* C3 witness: a summarize=true request answered with zero notes while the
\* API key is configured.
C3_Witness ==
  \E r \in Reqs :
    /\ Done(r) /\ route[r] = "notes" /\ bqErr[r] = <<>> /\ summarize[r] = "true"
    /\ notes[r] = <<>>
    /\ isApiKeyConfigured(apiKey)
    /\ Reply(r).status = 200

\* the call ran into a timeout: the 60 s timer of the call, or the socket's
TimedOut(o) == o.isAxiosError /\ (o.timer \/ o.code = "ETIMEDOUT")

\* C4 (as claimed): with an experimental model, a primary call that timed
\* out is followed by one call to the fallback model before the answer.
C4_TimeoutFallsBack ==
  \A r \in Reqs :
    (Done(r) /\ isExperimentalModel(model) /\ Len(gemOut[r]) >= 1 /\ TimedOut(gemOut[r][1]))
      => (Len(gemCalls[r]) = 2 /\ gemCalls[r][2] = ModelPro15)

\* the failures C5 names: network, auth, empty text
NetworkAuthOrEmpty(o) ==
  \/ o.isAxiosError /\ o.code \in {"ECONNREFUSED", "ENOTFOUND"}
  \/ o.isAxiosError /\ o.status = 403
  \/ ~o.isAxiosError /\ o.data.present /\ ExtractText(o.data) = <<>>

\* C5 (as claimed): with an experimental model, a network, auth or
\* empty-text failure of the primary call is followed by exactly one call
\* to gemini-1.5-pro.
C5_FallbackOnNetworkAuthEmpty ==
  \A r \in Reqs :
    (Done(r) /\ isExperimentalModel(model) /\ Len(gemOut[r]) >= 1
       /\ NetworkAuthOrEmpty(gemOut[r][1]))
      => (Len(gemCalls[r]) = 2 /\ gemCalls[r] = <<model, ModelPro15>>)

\* C6: per request the warehouse is queried exactly once, the generative
\* API at most twice (the configured model, then at most once the fallback
\* model), and a failed fallback call is surfaced with no further call.
C6_CallBudget ==
  \A r \in Reqs :
    /\ bqCalls[r] = (IF rpc[r] = "idle" THEN 0 ELSE 1)
    /\ Len(gemCalls[r]) <= 2
    /\ Len(gemCalls[r]) >= 1 => gemCalls[r][1] = model
    /\ Len(gemCalls[r]) = 2 => gemCalls[r][2] = ModelPro15
    /\ (Len(gemOut[r]) = 2 /\ OutcomeFailed(gemOut[r][2])) =>
         /\ Done(r)
         /\ Len(gemCalls[r]) = 2
         /\ ~Reply(r).summaryError.isNull
         /\ ~Reply(r).summary.defined

\* C6 witness: a request whose primary and fallback calls both failed.
C6_Witness ==
  \E r \in Reqs :
    /\ Done(r)
    /\ Len(gemOut[r]) = 2 /\ OutcomeFailed(gemOut[r][2])
    /\ gemCalls[r] = <<model, ModelPro15>>
    /\ bqCalls[r] = 1

\* the kind C7 assigns to a failed call
ExpectedKind(o) ==
  IF o.isAxiosError /\ o.status = 403 THEN "Access denied"
  ELSE IF o.isAxiosError /\ o.status = 404 THEN "Model not found"
  ELSE IF o.isAxiosError /\ o.code \in {"ECONNREFUSED", "ENOTFOUND"} THEN "Network error"
  ELSE IF o.isAxiosError /\ o.code = "ETIMEDOUT" THEN "Request timed out"
  ELSE "Failed to generate summary using Gemini"

\* C7: with a non-experimental model a failed call is propagated with no
\* second call, as the kind its HTTP status or error code decides:
\* 403 auth, 404 model-not-found, ECONNREFUSED/ENOTFOUND network,
\* ETIMEDOUT timeout, generic otherwise.
C7_NonExperimentalErrorKinds ==
  \A r \in Reqs :
    (Done(r) /\ ~isExperimentalModel(model) /\ Len(gemOut[r]) >= 1
       /\ OutcomeFailed(gemOut[r][1])) =>
      /\ Len(gemCalls[r]) = 1 /\ Len(gemOut[r]) = 1
      /\ ~Reply(r).summaryError.isNull
      /\ KindOf(Reply(r).summaryError.message) = ExpectedKind(gemOut[r][1])

\* C7 witness: a 404 under the stable model reported as model-not-found,
\* beside a refused connexion reported as a network error.
C7_Witness ==
  /\ ~isExperimentalModel(model)
  /\ \E r \in Reqs :
       /\ Done(r) /\ Len(gemOut[r]) = 1 /\ gemOut[r][1].status = 404
       /\ KindOf(Reply(r).summaryError.message) = "Model not found"
  /\ \E r \in Reqs :
       /\ Done(r) /\ Len(gemOut[r]) = 1 /\ gemOut[r][1].code = "ECONNREFUSED"
       /\ KindOf(Reply(r).summaryError.message) = "Network error"

\* C8 (as claimed): a call abandoned by the 60 s timer fails the summary
\* with the timeout kind.
C8_TimerGivesTimeoutKind ==
  \A r \in Reqs :
    (Done(r) /\ gemOut[r] # <<>> /\ gemOut[r][Len(gemOut[r])].timer) =>
      /\ ~Reply(r).summaryError.isNull
      /\ KindOf(Reply(r).summaryError.message) = "Request timed out"

\* C9: an error of the warehouse query on any of the three routes yields a
\* single 500 whose message is the error's message, with the query issued
\* once and no notes, products or types in the body.
C9_WarehouseError500 ==
  \A r \in Reqs :
    (rpc[r] = "done" /\ bqErr[r] # <<>>) =>
      /\ Len(resp[r]) = 1
      /\ Reply(r).status = 500
      /\ Reply(r).error = "Internal Server Error"
      /\ Reply(r).message = bqErr[r]
      /\ Reply(r).notes = <<>>
      /\ bqCalls[r] = 1
      /\ gemCalls[r] = <<>>

\* C9 witness: the query failed for a release-notes request and for a
\* meta request.
C9_Witness ==
  /\ \E r \in Reqs : Done(r) /\ route[r] = "notes" /\ bqErr[r] # <<>>
                     /\ Reply(r).status = 500
  /\ \E r \in Reqs : Done(r) /\ route[r] \in {"products", "types"} /\ bqErr[r] # <<>>
                     /\ Reply(r).status = 500

\* C10 (as claimed): a failure of the document store during increment or get
\* is answered with a 500 whose message is the store error's message.
C10_StoreMessageSurfaced ==
  \A c \in Clients :
    (Answered(c) /\ cerr[c] # NoError) =>
      (cresp[c][1].status = 500 /\ cresp[c][1].message = cerr[c])

\* C10 (amended): a failure of the document store during increment or get is
\* answered with a 500 whose message is the service's own fixed text,
\* "Failed to increment visitor counter" or "Failed to get visitor counter";
\* the store error's message is only logged.
C10_StoreFailure500 ==
  \A c \in Clients :
    (Answered(c) /\ cerr[c] # NoError) =>
      /\ cresp[c][1].status = 500
      /\ cresp[c][1].error = "Internal Server Error"
      /\ cresp[c][1].message =
           (IF cop[c] = "inc" THEN "Failed to increment visitor counter"
                              ELSE "Failed to get visitor counter")
      /\ cresp[c][1].message # cerr[c]

\* C10 witness: the store failed one increment and one get.
C10_Witness ==
  /\ \E c \in Clients : Answered(c) /\ cop[c] = "inc" /\ cerr[c] # NoError
                        /\ cresp[c][1].status = 500
  /\ \E c \in Clients : Answered(c) /\ cop[c] = "get" /\ cerr[c] # NoError
                        /\ cresp[c][1].status = 500

\* a get that was answered with a count
GetAnswered(c) == Answered(c) /\ cop[c] = "get" /\ cresp[c][1].status = 200

\* C15: no step lowers the stored count (an absent document counts as 0),
\* and a get answered in a step returns at least the value of every get
\* answered before it.
C15_CountNeverDecreases ==
  [][/\ CountOf(doc') >= CountOf(doc)
     /\ \A c, b \in Clients :
          (GetAnswered(b) /\ ~GetAnswered(c) /\ GetAnswered(c)')
            => cresp'[c][1].count >= cresp[b][1].count]_vars

\* C15 witness: a get was answered, an increment committed after that read,
\* and a later get was answered with a larger value.
C15_Witness ==
  \E b, c \in Clients :
    /\ GetAnswered(b) /\ GetAnswered(c)
    /\ cresp[b][1].count < cresp[c][1].count
    /\ cresp[c][1].count = CountOf(doc)
    /\ \E i \in IncClients : Answered(i) /\ cresp[i][1].status = 200

\* C16: a step of a get request never creates or changes the document, and
\* when the read finds no document the get is answered 200 with count 0.
C16_GetIsPlainRead ==
  [][\A c \in Clients :
       (cop'[c] = "get" /\ cpc'[c] # cpc[c]) =>
         /\ doc' = doc
         /\ (cpc[c] = "read" /\ cerr'[c] = NoError /\ ~doc.exists) =>
              cresp'[c] = <<[status |-> 200, count |-> 0, error |-> "", message |-> ""]>>]_vars

\* C16 witness: a get was answered with 0 while no document exists, and the
\* document is still absent.
C16_Witness ==
  \E c \in Clients :
    /\ GetAnswered(c) /\ cresp[c][1].count = 0
    /\ ~snap[c].exists /\ ~doc.exists /\ ~doc0.exists

\* C17: the document is absent or holds a count of at least 1; while it is
\* absent no increment has been answered with a count; and no step makes a
\* present document absent.
C17_AbsentOrPositive ==
  /\ [](doc.exists => doc.count >= 1)
  /\ [](~doc.exists =>
          \A c \in IncClients : ~(Answered(c) /\ cresp[c][1].status = 200))
  /\ [][doc.exists => doc'.exists]_vars

\* C17 witness: the document was absent at first and the first increment
\* created it with count 1.
C17_Witness ==
  /\ ~doc0.exists /\ doc.exists /\ doc.count = 1
  /\ \E c \in IncClients : Answered(c) /\ cresp[c][1].count = 1

\* the last day of the month before t's, and the day n days before t by the
\* calendar: within the month when n is smaller than the day of the month,
\* else t.date days back is the last day of the month before
EndOfMonthBefore(t) ==
  IF t.month > 0
    THEN [year |-> t.year, month |-> t.month - 1, date |-> DaysInMonth(t.year, t.month - 1)]
    ELSE [year |-> t.year - 1, month |-> 11, date |-> 31]
RECURSIVE DaysBefore(_, _)
DaysBefore(t, n) ==
  IF n < t.date THEN [t EXCEPT !.date = t.date - n]
  ELSE DaysBefore(EndOfMonthBefore(t), n - t.date)

\* the window each offered timeframe stands for
WindowDays(tf) == IF tf = Timeframe7d THEN 7 ELSE IF tf = Timeframe30d THEN 30 ELSE 90
\* a calendar day written YYYY-MM-DD: four-digit year, two-digit month 01-12
\* and day
WrittenDay(t) ==
  [valid |-> TRUE, year |-> t.year,
   month |-> <<(t.month + 1) \div 10, (t.month + 1) % 10>>,
   day |-> <<t.date \div 10, t.date % 10>>]

\* C12: for the timeframes 7d, 30d and 90d and any current date, the range
\* getDateRange returns ends on the current calendar day and starts exactly
\* 7, 30 or 90 calendar days earlier, across month and year boundaries and
\* leap days, both written YYYY-MM-DD.
C12_DateRange ==
  (drange # NoRange /\ dtimeframe \in {Timeframe7d, Timeframe30d, Timeframe90d}) =>
    /\ drange.endDate = WrittenDay(dnow)
    /\ drange.startDate = WrittenDay(DaysBefore(dnow, WindowDays(dtimeframe)))
    /\ drange.startDate.year \in 1000..9999

\* C12 witness: on 1 March of a leap year the 90d range starts in the
\* previous year, on 3 December.
C12_Witness ==
  /\ dnow = [year |-> 2024, month |-> 2, date |-> 1]
  /\ dtimeframe = Timeframe90d
  /\ drange.endDate = [valid |-> TRUE, year |-> 2024, month |-> <<0, 3>>, day |-> <<0, 1>>]
  /\ drange.startDate = [valid |-> TRUE, year |-> 2023, month |-> <<1, 2>>, day |-> <<0, 2>>]

UseCasesHeading == "## Industry Use Cases"
Parsed == presult # Unparsed

\* C13: a non-empty reply without the '## Industry Use Cases' heading makes
\* generateSummaryWithModel succeed with the reply as markdown and an empty
\* industryUseCases list; no reply text makes the parsing fail.
C13_NoHeadingNoUseCases ==
  (Parsed /\ ptext # <<>>) =>
    /\ presult.ok
    /\ presult.summary.markdown = ptext
    /\ ~Includes(ptext, UseCasesHeading) => presult.summary.industryUseCases = <<>>

\* C13 witness: a reply with a table row and a '##' heading, but not the
\* use-cases heading, was parsed into a summary with no use cases.
C13_Witness ==
  /\ Parsed /\ presult.ok
  /\ ~Includes(ptext, UseCasesHeading)
  /\ Includes(ptext, "|") /\ Includes(ptext, "##")
  /\ ptext[1] = "|"
  /\ presult.summary.industryUseCases = <<>>

\* the text between the first use-cases heading and the next fragment holding
\* '##' (or the end of the text)
UseCasesSlice(text) ==
  LET i == CHOOSE k \in 1..Len(text) :
             text[k] = UseCasesHeading /\ \A j \in 1..(k - 1) : text[j] # UseCasesHeading
      ends == {k \in (i + 1)..Len(text) : text[k] \in HashFragments}
      e == IF ends = {} THEN Len(text) + 1
           ELSE CHOOSE k \in ends : \A j \in ends : k <= j
  IN SubSeq(text, i + 1, e - 1)
\* a '|'-delimited line: its first fragment that is not a blank is '|'
PipeLine(line) ==
  \E k \in 1..Len(line) :
    line[k] = "|" /\ \A j \in 1..(k - 1) : line[j] \in BlankFragments
HasDashes(line) == \E k \in 1..Len(line) : line[k] \in DashFragments
\* the entry made of a line: its second and third '|'-separated cells
EntryOf(line) == Cell(line, 1) \o <<": ">> \o Cell(line, 2)
EntriesOf(ls) == [i \in 1..Len(ls) |-> EntryOf(ls[i])]

\* C14 as stated: the use cases are one entry, in order, for each
\* '|'-delimited line of the slice after the heading, and for no other line.
C14_EntryPerPipeLine ==
  (Parsed /\ Includes(ptext, UseCasesHeading)) =>
    presult.summary.industryUseCases =
      EntriesOf(SelectSeq(SplitAt(UseCasesSlice(ptext), {"\n"}), PipeLine))

\* C14 amended: the use cases are one entry, in order, for each line of the
\* slice after the heading that starts with '|' once trimmed and holds no
\* '---'; every other line, the table's separator row included, yields none.
C14_EntryPerRowLine ==
  (Parsed /\ Includes(ptext, UseCasesHeading)) =>
    presult.summary.industryUseCases =
      EntriesOf(SelectSeq(SplitAt(UseCasesSlice(ptext), {"\n"}),
                          LAMBDA l : PipeLine(l) /\ ~HasDashes(l)))

\* C14 witness: a row after the heading gave an entry, while a separator row
\* in the slice and a row after the next '##' gave none.
C14_Witness ==
  /\ Parsed
  /\ ptext = <<UseCasesHeading, "|", "\n", "|", "---">>
       \/ ptext = <<UseCasesHeading, "|", "##", "\n", "|">>
  /\ Len(presult.summary.industryUseCases) = 1

\* C18: within one browser session the component sends at most one increment
\* request, however often it mounts and however its initialisations interleave.
C18_AtMostOneIncrementRequest == incPosts <= 1

\* a calendar day as one number that orders days, from a Date's fields and
\* from a YYYY-MM-DD text
DayKey(t) == t.year * 10000 + (t.month + 1) * 100 + t.date
TextKey(f) == f.year * 10000 + (10 * f.month[1] + f.month[2]) * 100 + 10 * f.day[1] + f.day[2]
\* the names a comma-separated parameter lists
ParamWords(param) == {param[i] : i \in 1..Len(param)} \ {","}
\* the rows a request asks for: published within its window, and of a listed
\* type and product when the list is not empty
AskedFor(row, r) ==
  LET tf == IF reqQuery[r].timeframe = <<>> THEN Timeframe7d ELSE reqQuery[r].timeframe IN
    /\ TextKey(row.published_at.value) <= DayKey(reqNow[r])
    /\ TextKey(row.published_at.value) >= DayKey(DaysBefore(reqNow[r], WindowDays(tf)))
    /\ reqQuery[r].types # <<>> => row.release_note_type \in ParamWords(reqQuery[r].types)
    /\ reqQuery[r].products # <<>> => row.product_name \in ParamWords(reqQuery[r].products)
NoteOf(row) ==
  [product_name |-> row.product_name, release_note_type |-> row.release_note_type,
   description |-> row.description, published_at |-> row.published_at.value]

NotConfiguredReply(r) ==
  /\ Reply(r).status = 200
  /\ Reply(r).notes = notes[r]
  /\ ~Reply(r).summary.defined
  /\ ~Reply(r).summaryError.isNull
  /\ \E i \in 1..Len(Reply(r).summaryError.message) :
       Reply(r).summaryError.message[i] \in
         {"Gemini API key is not properly configured", "Gemini API key is not configured",
          "Gemini model is not configured"}

C20_ConfiguredModelIsSupplied ==
  (boot # "env" /\ envModel # <<>>) => cfg.model = envModel

\* C24: a GET /api/release-notes request without the summarize parameter
\* behaves as with summarize=true: once its notes are found (at least one),
\* the summary is attempted, so the request is answered with a summary or a
\* summaryError.
C24_OmittedSummarizeIsOn ==
  \A r \in Reqs :
    (Done(r) /\ route[r] = "notes" /\ bqErr[r] = <<>> /\ summarize[r] = "absent"
       /\ notes[r] # <<>>) =>
      (Reply(r).summary.defined \/ ~Reply(r).summaryError.isNull)

\* the callers of incrementCounter that were answered with a count
Incremented == {c \in IncClients : Answered(c) /\ cresp[c][1].status = 200}

\* C25: the counts returned by the incrementCounter calls that completed are
\* pairwise distinct and are exactly the starting count plus 1 up to the
\* starting count plus the number of completed calls, under every
\* interleaving of the transactions.
C25_ReturnedCountsDistinct ==
  /\ \A c, d \in Incremented :
       c # d => cresp[c][1].count # cresp[d][1].count
  /\ {cresp[c][1].count : c \in Incremented} =
       (CountOf(doc0) + 1)..(CountOf(doc0) + Cardinality(Incremented))

\* C25 witness: every client incremented a counter that stood at 2, two of
\* them were refused once and ran again, and the three returned 3, 4 and 5.
C25_Witness ==
  /\ CountOf(doc0) = MaxStartCount
  /\ Incremented = Clients
  /\ Cardinality({c \in Clients : attempts[c] >= 2}) >= 2
  /\ {cresp[c][1].count : c \in Clients} =
       (MaxStartCount + 1)..(MaxStartCount + NumClients)

\* C26: no step of a summary request, the fallback to gemini-1.5-pro
\* included, changes the service's model or API key, and the first generative
\* call of every request, also of one interleaved with a request that fell
\* back, is for the configured model.
C26_FallbackLeavesConfiguration ==
  /\ [][model' = model /\ apiKey' = apiKey]_vars
  /\ [](\A r \in Reqs : gemCalls[r] # <<>> => gemCalls[r][1] = model)

\* C26 witness: one request fell back to gemini-1.5-pro and the other
\* request, started while the first one's fallback call was pending, has
\* called the configured experimental model.
C26_Witness ==
  \E r, q \in Reqs :
    /\ r # q
    /\ model = ModelExp25
    /\ rpc[r] = "fallback" /\ gemCalls[r] = <<ModelExp25, FallbackModel>>
    /\ rpc[q] = "gemini" /\ gemCalls[q] = <<ModelExp25>>

\* the controllers' two kinds of response: the success payload, or a 500
\* with error and message (a text for the counter, fragments for the API)
SuccessOr500(response, noMessage) ==
  \/ response.status = 200
  \/ /\ response.status = 500
     /\ response.error = "Internal Server Error"
     /\ response.message # noMessage

\* C27: a request handled by one of the five controller handlers never has
\* more than one response; once its handler has finished it has exactly one,
\* the success payload or a 500 with error and message; and every request
\* received is answered in the end, whichever of the awaited calls fails.
C27_ExactlyOneResponse ==
  /\ [](\A r \in Reqs :
          /\ Len(resp[r]) <= 1
          /\ rpc[r] = "done" => (Len(resp[r]) = 1 /\ SuccessOr500(resp[r][1], <<>>)))
  /\ [](\A c \in Clients :
          /\ Len(cresp[c]) <= 1
          /\ cpc[c] = "done" => (Len(cresp[c]) = 1 /\ SuccessOr500(cresp[c][1], "")))
  /\ \A r \in BusyReqs : (rpc[r] # "idle") ~> Done(r)
  /\ \A c \in BusyClients : (cpc[c] # "idle") ~> Answered(c)

\* C27 witness: a release-notes request whose primary call came back empty
\* and whose fallback call failed too has its one response, the notes with a
\* summaryError.
C27_Witness ==
  \E r \in BusyReqs :
    /\ Done(r) /\ Len(gemOut[r]) = 2 /\ OutcomeFailed(gemOut[r][2])
    /\ Len(resp[r]) = 1 /\ Reply(r).status = 200
    /\ ~Reply(r).summaryError.isNull

\* C28: the session flag changes only in the step in which an increment
\* request succeeds (the backend has counted the visit), and then to 'true';
\* a failed increment leaves the flag as it is, ends the effect without the
\* read of the count and with no count displayed; and a mount that finds the
\* flag unset sends the increment request.
C28_FlagOnlyAfterIncrement ==
  /\ [][sessionFlag' # sessionFlag =>
          /\ sessionFlag' = FlagSet
          /\ siteCount' = siteCount + 1
          /\ \E m \in Mounts : mpc[m] = "incrementing" /\ mpc'[m] = "getting"]_vars
  /\ [][\A m \in Mounts :
          /\ (mpc[m] = "incrementing" /\ mpc'[m] # "incrementing" /\ siteCount' = siteCount) =>
               (sessionFlag' = sessionFlag /\ mpc'[m] = "hidden")
          /\ mpc[m] = "hidden" => (mpc'[m] = "hidden" /\ shown'[m] = -1)
          /\ (mpc[m] = "unmounted" /\ mpc'[m] # "unmounted" /\ sessionFlag = FlagUnset) =>
               (mpc'[m] = "incrementing" /\ incPosts' = incPosts + 1)]_vars
  /\ [](\A m \in Mounts : mpc[m] = "hidden" => shown[m] = -1)

\* C28 witness: one mount's increment failed, so it shows nothing and the
\* flag is still unset; another mount has sent the increment again.
C28_Witness ==
  \E m, n \in Mounts :
    /\ m # n
    /\ mpc[m] = "hidden" /\ shown[m] = -1
    /\ sessionFlag = FlagUnset
    /\ mpc[n] = "incrementing"
    /\ incPosts = 2
    /\ \A k \in Mounts \ {m, n} : mpc[k] = "unmounted"

\* C29: for any list of names selected in the UI, the list the controller
\* parses equals the list the frontend sent, and an empty list travels as an
\* absent parameter.
C29_ParsedListIsSentList ==
  /\ lpc # "selected" => (selected = <<>> => ~sentQuery.present)
  /\ lpc = "parsed" => parsedList = selected

\* C30: no console line written by the service holds the API key in clear,
\* on the success path and on every failure path of the generative call.
C30_KeyNeverLoggedInClear ==
  apiKey.text # "" =>
    \A i \in 1..Len(logged) : ~Includes(logged[i], apiKey.text)

\* the request got past the CORS preflight reply, the body parser and the
\* rate limiter
PastMiddleware(req) == req.method # "OPTIONS" /\ req.body # "malformed" /\ ~req.overLimit

\* the message of the error behind a 500 response: the body parser's for the
\* error middleware, the awaited call's for a controller
UnderlyingMessage(response) ==
  IF response.by = "errorMiddleware" THEN BodyParseError ELSE hfail

\* C21: in production the message of every 500 response, from a controller
\* or from the error middleware, holds nothing of the underlying error's
\* text; in development it is the underlying message.
C21_ErrorMessageByEnvironment ==
  \A i \in 1..Len(hresp) :
    hresp[i].status = 500 =>
      LET under == UnderlyingMessage(hresp[i]) IN
        /\ nodeEnv = "production" =>
             \A k \in 1..Len(under) : ~Includes(hresp[i].message, under[k])
        /\ nodeEnv = "development" => hresp[i].message = under

\* C22 as stated: a request of any method to a path under /api/ that
\* matches no registered route is answered with the 404 JSON.
C22_UnmatchedApiIs404 ==
  \A i \in 1..Len(hresp) :
    (UnderApi(hreq.path) /\ MatchedHandler(hreq) = "none") => hresp[i] = NotFound

\* C22 amended: a request to a path under /api/ that matches no registered
\* route is never answered with the application's document, a static file or
\* a redirect; of any method other than OPTIONS, with a parseable body and
\* within the rate limit, it is answered with 404 and {error: 'Not Found'}.
\* (An OPTIONS request gets the CORS preflight reply, a malformed JSON body
\* the error middleware's 500, a request over the limit a 429.)
C22_UnmatchedApiIs404PastMiddleware ==
  \A i \in 1..Len(hresp) :
    (UnderApi(hreq.path) /\ MatchedHandler(hreq) = "none") =>
      /\ hresp[i].by \notin {"httpsRedirect", "catchAll", "static"}
      /\ hresp[i].status \notin {301, 302}
      /\ PastMiddleware(hreq) => hresp[i] = NotFound
      /\ hreq.method = "OPTIONS" => hresp[i].by = "cors"
      /\ (hreq.method # "OPTIONS" /\ hreq.body = "malformed") =>
           hresp[i].by = "errorMiddleware"
      /\ (hreq.method # "OPTIONS" /\ hreq.body # "malformed" /\ hreq.overLimit) =>
           hresp[i].by = "rateLimit"

\* C22 witness: in production, a GET forwarded as plain HTTP for an unknown
\* path under /api/ while the build is in place got the 404 JSON.
C22_Witness ==
  /\ hreq.method = "GET" /\ hreq.path = <<"api", "unknown">> /\ hreq.proto = "http"
  /\ PastMiddleware(hreq)
  /\ publicDir = BuiltFiles /\ nodeEnv = "production"
  /\ hresp = <<NotFound>>

\* the file a path names in the build ("/" names index.html)
FileNamed(path) == IF path = <<>> THEN <<"index.html">> ELSE path
\* the application's entry document, sent by the catch-all
EntryDocument == Answer(200, "catchAll", <<"index.html">>, <<>>)
\* the server's own pages: the diagnostic routes and the static test page
OwnPage(req) == DiagnosticRoute(req) \/ req.path = <<"static-test">>

====
